---- MODULE Spec2Model ----
(***************************************************************************)
(* A model of the WebAssembly prototype's module decoder, data-segment     *)
(* loader, linker and module instantiator (wasm-module.cc).                *)
(*                                                                         *)
(* SpecDecode : ModuleDecoder (constructor, DecodeModule and               *)
(*              DecodeSingleFunction) run over byte strings.               *)
(* SpecInst   : WasmModule::Instantiate and CompileAndRunWasmModule run    *)
(*              over decoded modules, with the WasmLinker.                 *)
(*                                                                         *)
(* Positions in the module bytes are offsets from module_start, so         *)
(* start_ is 0 and a pointer p is the integer p - module_start.            *)
(***************************************************************************)
EXTENDS Integers, Sequences, FiniteSets, TLC

VARIABLES
  \* ---- ModuleDecoder ----
  bytes,            \* the input bytes [module_start, module_end)
  beyond,           \* the byte a read past module_end finds
  little_endian,    \* the build: V8_TARGET_LITTLE_ENDIAN defined or not
  verify_functions, \* DecodeModule's verify_functions argument
  mode,             \* which entry point runs: "module" or "function"
  end_,             \* ModuleDecoder::end_
  cur_,             \* ModuleDecoder::cur_
  result_,          \* ModuleDecoder::result_ (error_code, error_pc, error_pt, error_msg)
  module,           \* the WasmModule being filled by DecodeModule
  counts,           \* DecodeModule's locals globals_count, functions_count, data_segments_count
  dpc,              \* position in DecodeModule: <<phase, loop index>>
  log,              \* history: the u8/u16/u32 reads of the last step, in order
  first_error,      \* history: result_ as it was when the first error was latched
  verified,         \* history: indices of the functions handed to VerifyWasmCode
  signature,        \* DecodeFunctionSignature: what sig() built, what was returned
  \* ---- Instantiate / CompileAndRunWasmModule (on `module`, over `bytes`) ----
  entry,            \* which entry point runs, "" for none
  ipc,              \* position in the entry point
  calls,            \* per function, the callees of its body's direct calls, in order
  memory,           \* the linear memory at mem_addr; <<>> while mem_addr is null
  globals_area,     \* the globals buffer at globals_addr; <<>> while it is null
  linker,           \* WasmLinker: placeholder_code_ and function_code_
  code_heap,        \* per compiled function, the direct-call sites of its code
  func_index,       \* the function loop's local `index`
  main_code,        \* CompileAndRunWasmModule's main_code
  thrower,          \* the errors reported through the ErrorThrower, in order
  retval,           \* what the entry point returned, "" while it runs
  seg_log,          \* history: what LoadDataSegments did with each segment
  compile_log,      \* history: the functions the loop handled, with the outcome
  finish_log,       \* history: per function, the code passed to Finish
  linked,           \* history: Link() ran to its end
  global_offset,    \* TestingModule::global_offset
  \* ---- WasmRunner: one test function built and called (test-run-wasm.cc) ----
  test,             \* the TEST whose body was built, "" for none
  arg,              \* the argument of r.Call
  local0,           \* local 0 of the running function (the parameter)
  frames,           \* the statement lists control is inside, innermost last
  rpc,              \* "idle", "run", "returned"
  value,            \* what r.Call returned
  tail,             \* the value of the last expression statement executed
  trace,            \* history: the switch cases and loop back-edges taken, in order
  \* ---- AsmWasmBuilderImpl: one function literal walked (asm-wasm-builder.cc) ----
  literal,          \* the statements of the function literal being compiled
  todo,             \* the visits under way and still to make, next one last
  emitted,          \* what AppendCode has written to current_function_builder_
  in_function_,     \* AsmWasmBuilderImpl::in_function_
  block_depth_,     \* AsmWasmBuilderImpl::block_depth_
  breakable_blocks_,\* AsmWasmBuilderImpl::breakable_blocks_
  epc,              \* "idle", "walk", "done", "unreachable", "overflow"
  labels,           \* history: the Block and Loop opcodes written and still open
  jump_log,         \* history: every Br written, with the labels open around it
  block_log,        \* history: every Block written, its count and what followed
  op_log            \* history: every opcode table lookup and every shape visited

dvars == <<bytes, beyond, little_endian, verify_functions, mode, end_, cur_, result_,
           module, counts, dpc, log, first_error, verified, signature>>

ivars == <<entry, ipc, calls, memory, globals_area, linker, code_heap,
           func_index, main_code, thrower, retval, seg_log, compile_log, finish_log,
           linked, global_offset>>

rvars == <<test, arg, local0, frames, rpc, value, tail, trace>>

evars == <<literal, todo, emitted, in_function_, block_depth_, breakable_blocks_,
           epc, labels, jump_log, block_log, op_log>>

vars == <<dvars, ivars, rvars, evars>>

----------------------------------------------------------------------------
(* Bounds of the model.                                                    *)
MaxGlobals == 2
MaxFunctions == 2
MaxSegments == 2
MaxParams == 2

----------------------------------------------------------------------------
(* Codes of wasm-opcodes.h / wasm-result.h as the decoder uses them.       *)
kSuccess == 0
kError == 1
NullPtr == -1
start_ == 0

kAstStmt == 0
kAstI32 == 1
kAstI64 == 2
kAstF32 == 3
kAstF64 == 4
LocalTypes == {kAstStmt, kAstI32, kAstI64, kAstF32, kAstF64}

kMemI8 == 0
kMemU8 == 1
kMemI16 == 2
kMemU16 == 3
kMemI32 == 4
kMemU32 == 5
kMemI64 == 6
kMemU64 == 7
kMemF32 == 8
kMemF64 == 9
MemTypes == {kMemI8, kMemU8, kMemI16, kMemU16, kMemI32, kMemU32, kMemI64,
             kMemU64, kMemF32, kMemF64}

\* WasmOpcodes::MemSize
MemSize(t) ==
  CASE t \in {kMemI8, kMemU8} -> 1
    [] t \in {kMemI16, kMemU16} -> 2
    [] t \in {kMemI32, kMemU32, kMemF32} -> 4
    [] OTHER -> 8

----------------------------------------------------------------------------
(* Result<T>: the state before any error.                                  *)
NoError ==
  [error_code |-> kSuccess, error_pc |-> NullPtr, error_pt |-> NullPtr,
   error_msg |-> ""]

failed(res) == res.error_code # kSuccess
ok(res) == res.error_code = kSuccess

(* ModuleDecoder::error, without its guard: every error replaces the last. *)
error_overwrite(res, pc, msg) ==
  [error_code |-> kError, error_pc |-> pc, error_pt |-> NullPtr,
   error_msg |-> msg]

(* ModuleDecoder::error: latches the first error only.                     *)
error(res, pc, msg) ==
  IF res.error_code = kSuccess
  THEN [error_code |-> kError, error_pc |-> pc, error_pt |-> NullPtr,
        error_msg |-> msg]
  ELSE res

(* The decoder's registers threaded through one step: cur_, result_ and    *)
(* the two histories.  Latch is a call of error() on them.                 *)
Latch(d, pc, msg) ==
  LET r == error(d.result, pc, msg)
  IN [d EXCEPT !.result = r,
               !.first = IF ok(d.first) /\ failed(r) THEN r ELSE d.first]

FellOff(size) ==
  CASE size = 1 -> "expected 1 bytes, fell off end"
    [] size = 2 -> "expected 2 bytes, fell off end"
    [] OTHER -> "expected 4 bytes, fell off end"

(* checkAvailable that also refuses once an error is latched.              *)
checkAvailable_latched(d, size) ==
  IF d.cur < start_ \/ d.cur + size > end_ \/ failed(d.result)
  THEN [ok |-> FALSE, d |-> Latch(d, d.cur, FellOff(size))]
  ELSE [ok |-> TRUE, d |-> d]

(* checkAvailable with the bound off by one.                               *)
checkAvailable_offbyone(d, size) ==
  IF d.cur < start_ \/ d.cur + size > end_ + 1
  THEN [ok |-> FALSE, d |-> Latch(d, d.cur, FellOff(size))]
  ELSE [ok |-> TRUE, d |-> d]

(* ModuleDecoder::checkAvailable                                           *)
checkAvailable(d, size) ==
  IF d.cur < start_ \/ d.cur + size > end_
  THEN [ok |-> FALSE, d |-> Latch(d, d.cur, FellOff(size))]
  ELSE [ok |-> TRUE, d |-> d]

(* What may lie after the input bytes in memory.                           *)
Beyond == {0, 85}

(* The byte at offset o; a read past the buffer finds whatever lies there. *)
ByteAt(o) == IF o + 1 \in DOMAIN bytes THEN bytes[o + 1] ELSE beyond

(* What a read of n bytes leaves behind, given checkAvailable's answer a   *)
(* and the value val of the bytes at the cursor: val and the cursor moved  *)
(* by n when the bytes were there, 0 and the cursor unmoved when not.  The *)
(* read is recorded in the history.                                        *)
Read(d, a, n, val) ==
  [val |-> IF a.ok THEN val ELSE 0,
   d |-> [a.d EXCEPT
            !.cur = IF a.ok THEN d.cur + n ELSE d.cur,
            !.log = Append(d.log,
                      [n |-> n, before |-> d.cur,
                       after |-> IF a.ok THEN d.cur + n ELSE d.cur,
                       val |-> IF a.ok THEN val ELSE 0,
                       failed |-> failed(d.result),
                       role |-> "", rejected |-> FALSE])]]

(* History: the read just made was made for `role` (an offset, a local     *)
(* type, ...), and `rejected` tells whether its value was refused with a   *)
(* call of error().                                                        *)
Tag(d, role, rejected) ==
  [d EXCEPT !.log[Len(d.log)].role = role,
            !.log[Len(d.log)].rejected = rejected]

(* ModuleDecoder::u8                                                       *)
u8(d) == Read(d, checkAvailable(d, 1), 1, ByteAt(d.cur))

(* The bytes b0 (lowest) .. b(n-1) of an n-byte field at offset o, as the  *)
(* build picks them: cur_[0], cur_[1], .. with V8_TARGET_LITTLE_ENDIAN,    *)
(* the reverse without.                                                    *)
FieldByte(o, n, k) ==
  IF little_endian THEN ByteAt(o + k) ELSE ByteAt(o + (n - 1 - k))

(* ModuleDecoder::u16: static_cast<uint16_t>(b1 << 8) | b0                 *)
u16(d) ==
  Read(d, checkAvailable(d, 2), 2,
       ((FieldByte(d.cur, 2, 1) * 256) % 65536) + FieldByte(d.cur, 2, 0))

(* ModuleDecoder::u32.  The four shifted bytes occupy disjoint bits, so    *)
(* the ors are a sum below 2^32 and no cast wraps.  (The inputs keep the   *)
(* top byte below 128, so that every value stays below 2^31.)              *)
u32(d) ==
  Read(d, checkAvailable(d, 4), 4,
       FieldByte(d.cur, 4, 3) * 16777216 + FieldByte(d.cur, 4, 2) * 65536
         + FieldByte(d.cur, 4, 1) * 256 + FieldByte(d.cur, 4, 0))

(* offset's bound with >= in the place of >.                               *)
offset_check_exclusive(r) ==
  IF r.val >= end_ - start_
  THEN [val |-> r.val,
        d |-> Latch(Tag(r.d, "offset", TRUE), r.d.cur - 4,
                    "offset out of bounds of module")]
  ELSE [val |-> r.val, d |-> Tag(r.d, "offset", FALSE)]

(* The check of ModuleDecoder::offset on the value r just read.            *)
offset_check(r) ==
  IF r.val > end_ - start_
  THEN [val |-> r.val,
        d |-> Latch(Tag(r.d, "offset", TRUE), r.d.cur - 4,
                    "offset out of bounds of module")]
  ELSE [val |-> r.val, d |-> Tag(r.d, "offset", FALSE)]

(* ModuleDecoder::offset                                                   *)
offset(d) == offset_check(u32(d))

(* A name read as a 16-bit field.                                          *)
string_u16(d) == u16(d)

(* ModuleDecoder::string                                                   *)
string(d) == offset(d)

(* The switch of ModuleDecoder::local_type on the byte r just read.        *)
local_type_check(r) ==
  IF r.val \in LocalTypes
  THEN r
  ELSE [val |-> kAstStmt, d |-> Latch(r.d, r.d.cur - 1, "invalid local type")]

(* ModuleDecoder::local_type                                               *)
local_type(d) == local_type_check(u8(d))

(* The switch of ModuleDecoder::mem_type on the byte r just read.          *)
mem_type_check(r) ==
  IF r.val \in MemTypes
  THEN r
  ELSE [val |-> kMemI32, d |-> Latch(r.d, r.d.cur - 1, "invalid memory type")]

(* ModuleDecoder::mem_type                                                 *)
mem_type(d) == mem_type_check(u8(d))

(* A parameter taken as the type byte says, kAstStmt too.                  *)
sig_param_check_void(r) == r

(* One parameter of ModuleDecoder::sig: the type r just read.              *)
sig_param_check(r) ==
  IF r.val = kAstStmt
  THEN [val |-> r.val,
        d |-> Latch(r.d, r.d.cur - 1, "invalid void parameter type")]
  ELSE r

(* The reader named `kind`.                                                *)
ReadField(d, kind) ==
  CASE kind = "u8" -> u8(d)
    [] kind = "u16" -> u16(d)
    [] kind = "u32" -> u32(d)
    [] kind = "offset" -> offset(d)
    [] kind = "string" -> string(d)
    [] kind = "local_type" -> local_type(d)
    [] kind = "mem_type" -> mem_type(d)
    [] kind = "param" -> sig_param_check(local_type(d))

(* The readers `kinds` called one after the other: their values in order,  *)
(* and the registers the last one leaves.                                  *)
RECURSIVE ReadFields(_, _, _), ReadFieldsNext(_, _, _)
ReadFields(d, kinds, vals) ==
  IF kinds = <<>>
  THEN [vals |-> vals, d |-> d]
  ELSE ReadFieldsNext(ReadField(d, Head(kinds)), Tail(kinds), vals)

ReadFieldsNext(r, kinds, vals) == ReadFields(r.d, kinds, Append(vals, r.val))

(* ModuleDecoder::sig: count, return type, then count parameter types.     *)
sig_build(h, ps) ==
  [val |-> [returns |-> IF h.vals[2] = kAstStmt THEN <<>> ELSE <<h.vals[2]>>,
            params |-> ps.vals],
   d |-> ps.d]

sig_params(h) == ReadFields(h.d, [i \in 1..h.vals[1] |-> "param"], <<>>)

sig_header(d) == ReadFields(d, <<"u8", "local_type">>, <<>>)

sig(d) == sig_build(sig_header(d), sig_params(sig_header(d)))

----------------------------------------------------------------------------
(* The entries of the module's tables.                                     *)

WasmGlobal(v) ==
  [name_offset |-> v[1], type |-> v[2], offset |-> 0, exported |-> v[3] # 0]

(* ModuleDecoder::DecodeGlobalInModule: name, memory type, (offset is      *)
(* computed later), exported flag.                                         *)
DecodeGlobalFields(r) == [val |-> WasmGlobal(r.vals), d |-> r.d]

DecodeGlobalInModule(d) ==
  DecodeGlobalFields(ReadFields(d, <<"string", "mem_type", "u8">>, <<>>))

WasmFunction(s, v) ==
  [sig |-> s, name_offset |-> v[1], code_start_offset |-> v[2],
   code_end_offset |-> v[3], local_int32_count |-> v[4],
   local_int64_count |-> v[5], local_float32_count |-> v[6],
   local_float64_count |-> v[7], exported |-> v[8] # 0,
   external |-> v[9] # 0]

(* ModuleDecoder::DecodeFunctionInModule: signature, name, code start and  *)
(* end offsets, the four local counts, exported and external flags.        *)
DecodeFunctionFields(s, r) == [val |-> WasmFunction(s.val, r.vals), d |-> r.d]

DecodeFunctionRest(s) ==
  DecodeFunctionFields(s,
    ReadFields(s.d, <<"string", "offset", "offset", "u16", "u16", "u16",
                      "u16", "u8", "u8">>, <<>>))

DecodeFunctionInModule(d) == DecodeFunctionRest(sig(d))

WasmDataSegment(v) ==
  [dest_addr |-> v[1], source_offset |-> v[2], source_size |-> v[3],
   init |-> v[4] # 0]

(* ModuleDecoder::DecodeDataSegmentInModule: destination address, source   *)
(* offset, source size, init flag.                                         *)
DecodeDataSegmentFields(r) == [val |-> WasmDataSegment(r.vals), d |-> r.d]

DecodeDataSegmentInModule(d) ==
  DecodeDataSegmentFields(ReadFields(d, <<"u32", "offset", "u32", "u8">>, <<>>))

(* VerifyWasmCode, the function verifier: it accepts the body or reports   *)
(* an error at a place of its own.  A body whose range is inverted is      *)
(* taken to be refused always, so that nothing below rests on a verifier   *)
(* that lets one through.                                                  *)
VerifyWasmCode(function) ==
  (IF function.code_start_offset <= function.code_end_offset
   THEN {NoError} ELSE {})
  \cup {[error_code |-> kError, error_pc |-> function.code_start_offset,
          error_pt |-> NullPtr, error_msg |-> "invalid body"]}

(* The message VerifyFunctionBody builds.  It copies from str.str().c_str() *)
(* after the temporary string is gone: the text is the intended one minus   *)
(* its last character (buffer[len - 1] = 0), or whatever the freed storage  *)
(* holds.                                                                   *)
VerifyMessages(func_num) ==
  {"in function #" \o ToString(func_num) \o ": invalid bod", "<indeterminate>"}

(* ModuleDecoder::VerifyFunctionBody, for one answer of the verifier and   *)
(* one outcome of the message copy: result_.CopyFrom(result) when failed.  *)
VerifyFunctionBody(d, result, msg) ==
  IF failed(result)
  THEN LET r == [result EXCEPT !.error_msg = msg]
       IN [d EXCEPT !.result = r,
                    !.first = IF ok(d.first) THEN r ELSE d.first]
  ELSE d

----------------------------------------------------------------------------
(* DecodeModule and DecodeSingleFunction, one step per entry decoded.      *)

Registers ==
  [cur |-> cur_, result |-> result_, first |-> first_error, log |-> <<>>]

Commit(d) ==
  /\ cur_' = d.cur
  /\ result_' = d.result
  /\ first_error' = d.first
  /\ log' = d.log

(* The loops of DecodeModule without their breaks: each runs while        *)
(* i < count, whatever result_ is.                                         *)
LoopPos_nobreak(phase, i, c, res) ==
  LET gi == IF phase = "globals" THEN i ELSE 0
      fi == IF phase = "functions" THEN i ELSE 0
      si == IF phase = "segments" THEN i ELSE 0
  IN IF phase = "globals" /\ gi < c.globals
       THEN <<"globals", gi>>
     ELSE IF phase \in {"globals", "functions"} /\ fi < c.functions
       THEN <<"functions", fi>>
     ELSE IF si < c.data_segments
       THEN <<"segments", si>>
     ELSE <<"done", 0>>

(* Where DecodeModule continues from loop `phase` at index i: each loop    *)
(* runs while i < count and breaks once result_ has failed.                *)
LoopPos(phase, i, c, res) ==
  LET gi == IF phase = "globals" THEN i ELSE 0
      fi == IF phase = "functions" THEN i ELSE 0
      si == IF phase = "segments" THEN i ELSE 0
  IN IF phase = "globals" /\ gi < c.globals /\ ok(res)
       THEN <<"globals", gi>>
     ELSE IF phase \in {"globals", "functions"} /\ fi < c.functions /\ ok(res)
       THEN <<"functions", fi>>
     ELSE IF si < c.data_segments /\ ok(res)
       THEN <<"segments", si>>
     ELSE <<"done", 0>>

DecoderInputs == <<bytes, beyond, little_endian, verify_functions, mode, end_>>

(* DecodeModule up to its first loop: the module is reset and the header  *)
(* read: memory size, memory export option, the three counts.              *)
DecodeModuleHeader ==
  /\ mode = "module"
  /\ dpc = <<"start", 0>>
  /\ LET h == ReadFields([Registers EXCEPT !.cur = start_],
                         <<"u8", "u8", "u16", "u16", "u16">>, <<>>)
         c == [globals |-> h.vals[3], functions |-> h.vals[4],
               data_segments |-> h.vals[5]]
     IN /\ module' = [module_end |-> end_,
                      mem_size_log2 |-> h.vals[1],
                      mem_export |-> h.vals[2] # 0,
                      globals |-> <<>>, functions |-> <<>>,
                      data_segments |-> <<>>]
        /\ counts' = c
        /\ Commit(h.d)
        /\ dpc' = LoopPos("globals", 0, c, h.d.result)
  /\ UNCHANGED <<DecoderInputs, signature, verified, ivars, rvars, evars>>

(* One iteration of the globals loop.                                      *)
DecodeGlobal ==
  /\ dpc[1] = "globals"
  /\ LET g == DecodeGlobalInModule(Registers)
     IN /\ module' = [module EXCEPT !.globals = Append(@, g.val)]
        /\ Commit(g.d)
        /\ dpc' = LoopPos("globals", dpc[2] + 1, counts, g.d.result)
  /\ UNCHANGED <<DecoderInputs, signature, counts, verified, ivars, rvars, evars>>

(* One iteration of the functions loop: the entry, then its body's         *)
(* verification when asked for, the entry decoded and not external.        *)
DecodeFunction ==
  /\ dpc[1] = "functions"
  /\ LET f == DecodeFunctionInModule(Registers)
         verify == ok(f.d.result) /\ verify_functions /\ ~f.val.external
     IN /\ module' = [module EXCEPT !.functions = Append(@, f.val)]
        /\ verified' = IF verify THEN Append(verified, dpc[2]) ELSE verified
        /\ \E result \in (IF verify THEN VerifyWasmCode(f.val) ELSE {NoError}) :
           \E msg \in (IF failed(result) THEN VerifyMessages(dpc[2]) ELSE {""}) :
             LET d == VerifyFunctionBody(f.d, result, msg)
             IN /\ Commit(d)
                /\ dpc' = LoopPos("functions", dpc[2] + 1, counts, d.result)
  /\ UNCHANGED <<DecoderInputs, signature, counts, ivars, rvars, evars>>

(* One iteration of the data segments loop.                                *)
DecodeDataSegment ==
  /\ dpc[1] = "segments"
  /\ LET s == DecodeDataSegmentInModule(Registers)
     IN /\ module' = [module EXCEPT !.data_segments = Append(@, s.val)]
        /\ Commit(s.d)
        /\ dpc' = LoopPos("segments", dpc[2] + 1, counts, s.d.result)
  /\ UNCHANGED <<DecoderInputs, signature, counts, verified, ivars, rvars, evars>>

(* The function DecodeSingleFunction fills in: signature s, no name, the   *)
(* code from 8 bytes after the signature to end_, local counts v.          *)
SingleFunction(s, v) ==
  [sig |-> s.val, name_offset |-> 0,
   code_start_offset |-> (s.d.cur + 8) - start_,
   code_end_offset |-> end_ - start_,
   local_int32_count |-> v[1], local_int64_count |-> v[2],
   local_float32_count |-> v[3], local_float64_count |-> v[4],
   exported |-> FALSE, external |-> FALSE]

DecodeSingleFunctionFields(s, r) ==
  [val |-> SingleFunction(s, r.vals), d |-> r.d]

DecodeSingleFunctionRest(s) ==
  DecodeSingleFunctionFields(s,
    ReadFields(s.d, <<"u16", "u16", "u16", "u16">>, <<>>))

(* ModuleDecoder::DecodeSingleFunction                                     *)
DecodeSingleFunction ==
  /\ mode = "function"
  /\ dpc = <<"start", 0>>
  /\ LET f == DecodeSingleFunctionRest(sig([Registers EXCEPT !.cur = start_]))
         verify == ok(f.d.result)
     IN /\ module' = [module EXCEPT !.functions = <<f.val>>]
        /\ verified' = IF verify THEN <<0>> ELSE verified
        /\ \E result \in (IF verify THEN VerifyWasmCode(f.val) ELSE {NoError}) :
           \E msg \in (IF failed(result) THEN VerifyMessages(0) ELSE {""}) :
             Commit(VerifyFunctionBody(f.d, result, msg))
        /\ dpc' = <<"done", 0>>
  /\ UNCHANGED <<DecoderInputs, signature, counts, ivars, rvars, evars>>

(* No signature: the null pointer.  A pointer to a signature is <<sig>>.   *)
NoSignature == <<>>

(* ModuleDecoder::DecodeFunctionSignature: sig() from start, and its       *)
(* result returned only if no error is latched.                            *)
DecodeFunctionSignature ==
  /\ mode = "signature"
  /\ dpc = <<"start", 0>>
  /\ LET s == sig([Registers EXCEPT !.cur = start_])
     IN /\ signature' = [built |-> <<s.val>>,
                         returned |-> IF ok(s.d.result) THEN <<s.val>>
                                      ELSE NoSignature]
        /\ Commit(s.d)
  /\ dpc' = <<"done", 0>>
  /\ UNCHANGED <<DecoderInputs, module, counts, verified, ivars, rvars, evars>>

----------------------------------------------------------------------------
(* Code objects.  A handle is the record of the object it points to:       *)
(* kind and constant_pool_offset are the Code fields LinkFunction tests,   *)
(* id tells the objects of one kind apart.  NullCode is the null handle.   *)

kPlaceholderMarker == 1000000000

NullCode == [kind |-> "null", constant_pool_offset |-> 0, id |-> 0]

(* The code object a successful CompileFunction returns for function       *)
(* `index`.                                                                *)
CompiledCode(index) ==
  [kind |-> "WASM_FUNCTION", constant_pool_offset |-> 0, id |-> index]

(* The placeholder GetFunctionCode creates: a WASM_FUNCTION code object    *)
(* with index + kPlaceholderMarker in its constant_pool_offset.            *)
PlaceholderCode(index) ==
  [kind |-> "WASM_FUNCTION",
   constant_pool_offset |-> index + kPlaceholderMarker, id |-> index]

(* The wrapper code for a call from wasm to a JS function of the FFI.      *)
CompileWasmToJSWrapper(index) ==
  [kind |-> "WASM_TO_JS_FUNCTION", constant_pool_offset |-> 0, id |-> index]

(* WasmLinker::WasmLinker: two vectors of null handles.                    *)
(* `created` is history: how many placeholders were made per index.        *)
WasmLinker(size) ==
  [placeholder_code_ |-> [i \in 1..size |-> NullCode],
   function_code_ |-> [i \in 1..size |-> NullCode],
   created |-> [i \in 1..size |-> 0]]

(* GetFunctionCode making a placeholder on every call.                     *)
GetFunctionCode_fresh(lk, index) ==
  [lk |-> [placeholder_code_ |->
             [lk.placeholder_code_ EXCEPT ![index + 1] = PlaceholderCode(index)],
           function_code_ |->
             [lk.function_code_ EXCEPT ![index + 1] = PlaceholderCode(index)],
           created |-> [lk.created EXCEPT ![index + 1] = @ + 1]],
   code |-> PlaceholderCode(index)]

(* WasmLinker::GetFunctionCode: the code of function `index`, a fresh      *)
(* placeholder stored in both vectors when none is there yet.              *)
GetFunctionCode(lk, index) ==
  IF lk.function_code_[index + 1] = NullCode
  THEN [lk |-> [placeholder_code_ |->
                  [lk.placeholder_code_ EXCEPT ![index + 1] =
                     PlaceholderCode(index)],
                function_code_ |->
                  [lk.function_code_ EXCEPT ![index + 1] =
                     PlaceholderCode(index)],
                created |-> [lk.created EXCEPT ![index + 1] = @ + 1]],
        code |-> PlaceholderCode(index)]
  ELSE [lk |-> lk, code |-> lk.function_code_[index + 1]]

(* WasmLinker::Finish                                                      *)
Finish(lk, index, code) ==
  [lk EXCEPT !.function_code_[index + 1] = code]

(* LinkFunction's test for a call target that is a placeholder.            *)
IsPlaceholder(target) ==
  /\ target.kind = "WASM_FUNCTION"
  /\ target.constant_pool_offset >= kPlaceholderMarker

(* A patch that leaves the call site as it is.                             *)
PatchSite_kept(lk, site) ==
  [site |-> site, check |-> TRUE, modified |-> FALSE]

(* A patch without the test target != *new_target.                         *)
PatchSite_untested(lk, site) ==
  IF IsPlaceholder(site.target)
  THEN LET i == site.target.constant_pool_offset - kPlaceholderMarker
       IN IF ~(i < Len(lk.function_code_))
          THEN [site |-> site, check |-> FALSE, modified |-> FALSE]
          ELSE [site |-> [site EXCEPT !.target = lk.function_code_[i + 1]],
                check |-> lk.placeholder_code_[i + 1] = site.target,
                modified |-> TRUE]
  ELSE [site |-> site, check |-> TRUE, modified |-> FALSE]

(* LinkFunction on one code-target relocation: a call to a placeholder is  *)
(* redirected to function_code_[index], index taken from the marker.       *)
(* `check` is false when one of the two CHECKs fails; `modified` is what   *)
(* the relocation contributes to LinkFunction's flag.                      *)
PatchSite(lk, site) ==
  IF IsPlaceholder(site.target)
  THEN LET i == site.target.constant_pool_offset - kPlaceholderMarker
       IN IF ~(i < Len(lk.function_code_))
          THEN [site |-> site, check |-> FALSE, modified |-> FALSE]
          ELSE IF site.target # lk.function_code_[i + 1]
          THEN [site |-> [site EXCEPT !.target = lk.function_code_[i + 1]],
                check |-> lk.placeholder_code_[i + 1] = site.target,
                modified |-> TRUE]
          ELSE [site |-> site, check |-> TRUE, modified |-> FALSE]
  ELSE [site |-> site, check |-> TRUE, modified |-> FALSE]

(* The direct-call sites of a code object: those of the compiled function  *)
(* it is; a placeholder or a wrapper has none.                             *)
SitesOf(heap, code) ==
  IF code.kind = "WASM_FUNCTION" /\ ~IsPlaceholder(code)
  THEN heap[code.id + 1] ELSE <<>>

(* WasmLinker::LinkFunction.  `crashed` is true when the handle is null    *)
(* (it is dereferenced) or a CHECK fails; `modified` is the flag under     *)
(* which the instruction cache of the code is flushed.                     *)
LinkFunction(lk, heap, code) ==
  IF code = NullCode
  THEN [heap |-> heap, crashed |-> TRUE, modified |-> FALSE]
  ELSE IF SitesOf(heap, code) = <<>>
  THEN [heap |-> heap, crashed |-> FALSE, modified |-> FALSE]
  ELSE LET sites == heap[code.id + 1]
           patched == [k \in DOMAIN sites |-> PatchSite(lk, sites[k])]
       IN [heap |-> [heap EXCEPT ![code.id + 1] =
                       [k \in DOMAIN sites |-> patched[k].site]],
           crashed |-> \E k \in DOMAIN sites : ~patched[k].check,
           modified |-> \E k \in DOMAIN sites : patched[k].modified]

(* WasmLinker::Link: LinkFunction on function_code_[i], i ascending;       *)
(* `flushed` collects the i whose code LinkFunction flushed.               *)
RECURSIVE LinkFrom(_, _, _, _)
LinkFrom(lk, heap, i, flushed) ==
  IF i > Len(lk.function_code_)
  THEN [heap |-> heap, crashed |-> FALSE, flushed |-> flushed]
  ELSE LET r == LinkFunction(lk, heap, lk.function_code_[i])
           f == IF r.modified THEN flushed \cup {i - 1} ELSE flushed
       IN IF r.crashed
          THEN [heap |-> r.heap, crashed |-> TRUE, flushed |-> f]
          ELSE LinkFrom(lk, r.heap, i + 1, f)

Link(lk, heap) == LinkFrom(lk, heap, 1, {})

----------------------------------------------------------------------------
(* Compiling one function.                                                 *)

(* ModuleEnv::GetFunctionCode: through the linker when the environment     *)
(* has one, else the function_code table's entry as it is.                 *)
ModuleEnvGetFunctionCode(has_linker, lk, index) ==
  IF has_linker
  THEN GetFunctionCode(lk, index)
  ELSE [lk |-> lk, code |-> lk.function_code_[index + 1]]

(* The graph builder on a body's direct calls: each call to function c     *)
(* takes its target from ModuleEnv::GetFunctionCode(c), in body order.     *)
RECURSIVE BuildTFGraph(_, _, _, _)
BuildTFGraph(has_linker, lk, callees, sites) ==
  IF callees = <<>>
  THEN [lk |-> lk, sites |-> sites]
  ELSE LET r == ModuleEnvGetFunctionCode(has_linker, lk, Head(callees))
       IN BuildTFGraph(has_linker, r.lk, Tail(callees),
                       Append(sites, [callee |-> Head(callees),
                                      target |-> r.code]))

(* FunctionEnv::SumLocals (wasm/ast-decoder.h): total_locals is the        *)
(* number of parameters of the signature plus the four local counts.       *)
SumLocals(env) ==
  [env EXCEPT !.total_locals =
     Len(env.sig.params) + env.local_int32_count + env.local_int64_count
       + env.local_float32_count + env.local_float64_count]

(* The function environment CompileFunction initializes for decoding the   *)
(* body: signature and local counts are the function's; total_locals is    *)
(* SumLocals' with the linker, and without it the sum of the four local    *)
(* counts that src/wasm/wasm-module.cc writes out.                         *)
FunctionEnv(has_linker, function) ==
  LET env == [sig |-> function.sig,
              local_int32_count |-> function.local_int32_count,
              local_int64_count |-> function.local_int64_count,
              local_float32_count |-> function.local_float32_count,
              local_float64_count |-> function.local_float64_count,
              total_locals |-> 0]
  IN IF has_linker
     THEN SumLocals(env)
     ELSE [env EXCEPT !.total_locals =
             env.local_int32_count + env.local_int64_count
               + env.local_float32_count + env.local_float64_count]

(* History: function `index` went through CompileFunction, which decoded   *)
(* its body in the environment kept here.                                  *)
Compiled(has_linker, function, index, did) ==
  [index |-> index, did |-> did, env |-> FunctionEnv(has_linker, function)]

(* How a compilation can end: code generated; the graph builder failing    *)
(* after k of the body's calls; the pipeline returning no code.            *)
CompileOutcomes(callees) ==
  {[end |-> "code", k |-> Len(callees)], [end |-> "no code", k |-> Len(callees)]}
    \cup {[end |-> "graph failed", k |-> k] : k \in 0..Len(callees)}

(* CompileFunction: the null handle when BuildTFGraph fails (`failed`: the *)
(* failure is reported by the caller's means) or the pipeline gives none,  *)
(* else the function's code with its call sites.                           *)
CompileFunction(has_linker, lk, heap, callees, index, outcome) ==
  LET g == BuildTFGraph(has_linker, lk, SubSeq(callees, 1, outcome.k), <<>>)
  IN IF outcome.end = "code"
     THEN [code |-> CompiledCode(index), lk |-> g.lk,
           heap |-> [heap EXCEPT ![index + 1] = g.sites], failed |-> FALSE]
     ELSE [code |-> NullCode, lk |-> g.lk, heap |-> heap,
           failed |-> outcome.end = "graph failed"]

----------------------------------------------------------------------------
(* Linear memory, data segments, globals.                                  *)

(* The largest mem_size_log2 Instantiate accepts (wasm-module.h), scaled   *)
(* down so that a memory is a few bytes.                                   *)
kMaxMemSize == 2

(* 1 << n *)
Shl(n) == 2 ^ n

Zeroed(size) == [i \in 1..size |-> 0]

(* NewArrayBuffer: a zeroed backing store of `size` bytes, or none when    *)
(* the allocator returns null.                                             *)
NewArrayBuffer(size) == {<<>>, Zeroed(size)}

(* A copy that leaves alone the bytes an earlier copy has set.             *)
memcpy_unset(mem, dest_addr, source_offset, source_size) ==
  [i \in DOMAIN mem |->
     IF dest_addr < i /\ i <= dest_addr + source_size /\ mem[i] = 0
     THEN ByteAt(source_offset + (i - 1 - dest_addr))
     ELSE mem[i]]

(* A copy that adds the source bytes to what the memory holds.             *)
memcpy_add(mem, dest_addr, source_offset, source_size) ==
  [i \in DOMAIN mem |->
     IF dest_addr < i /\ i <= dest_addr + source_size
     THEN (mem[i] + ByteAt(source_offset + (i - 1 - dest_addr))) % 256
     ELSE mem[i]]

(* memcpy(mem_addr + dest_addr, module_start + source_offset, source_size) *)
memcpy(mem, dest_addr, source_offset, source_size) ==
  [i \in DOMAIN mem |->
     IF dest_addr < i /\ i <= dest_addr + source_size
     THEN ByteAt(source_offset + (i - 1 - dest_addr))
     ELSE mem[i]]

(* The three CHECK_LT of LoadDataSegments.                                 *)
SegmentFits(segment, mem_size) ==
  /\ segment.dest_addr < mem_size
  /\ segment.source_size < mem_size
  /\ segment.dest_addr + segment.source_size < mem_size

(* LoadDataSegments from segment k on: a segment without init is skipped,  *)
(* a failing CHECK aborts the process, else the segment is copied.  The    *)
(* history entry keeps the memory before and after the segment.            *)
RECURSIVE LoadDataSegments(_, _, _, _)
LoadDataSegments(segments, k, mem, lg) ==
  IF k > Len(segments)
  THEN [mem |-> mem, log |-> lg, aborted |-> FALSE]
  ELSE IF ~segments[k].init
  THEN LoadDataSegments(segments, k + 1, mem,
         Append(lg, [did |-> "skipped", before |-> mem, after |-> mem]))
  ELSE IF ~SegmentFits(segments[k], Len(mem))
  THEN [mem |-> mem, aborted |-> TRUE,
        log |-> Append(lg, [did |-> "aborted", before |-> mem, after |-> mem])]
  ELSE LET m == memcpy(mem, segments[k].dest_addr, segments[k].source_offset,
                       segments[k].source_size)
       IN LoadDataSegments(segments, k + 1, m,
            Append(lg, [did |-> "copied", before |-> mem, after |-> m]))

(* The offset as it is, without the alignment.                             *)
AlignUp_none(off, size) == off

(* (offset + size - 1) & ~(size - 1), size a power of two                  *)
AlignUp(off, size) == ((off + size - 1) \div size) * size

(* AllocateGlobalsOffsets from global k on, `off` the running offset:      *)
(* each global goes to the next multiple of its size.                      *)
RECURSIVE AllocateGlobalsOffsets(_, _, _)
AllocateGlobalsOffsets(globals, k, off) ==
  IF k > Len(globals)
  THEN [globals |-> globals, size |-> off]
  ELSE LET size == MemSize(globals[k].type)
           o == AlignUp(off, size)
       IN AllocateGlobalsOffsets([globals EXCEPT ![k].offset = o], k + 1,
                                 o + size)

(* ComputeGlobalsSize: the largest offset + size of the globals as they    *)
(* are.                                                                    *)
RECURSIVE ComputeGlobalsSize(_, _, _)
ComputeGlobalsSize(globals, k, globals_size) ==
  IF k > Len(globals)
  THEN globals_size
  ELSE LET end == globals[k].offset + MemSize(globals[k].type)
       IN ComputeGlobalsSize(globals, k + 1,
                             IF end > globals_size THEN end ELSE globals_size)

----------------------------------------------------------------------------
(* WasmModule::Instantiate and CompileAndRunWasmModule, step by step.      *)
(* entry is "Instantiate" (the Instantiate that links through a            *)
(* WasmLinker), "InstantiateNoLinker" (the Instantiate of                  *)
(* src/wasm/wasm-module.cc, which keeps a plain function_code table; the   *)
(* table is held in linker.function_code_) or "CompileAndRunWasmModule".   *)

dvars_rest == <<bytes, beyond, little_endian, verify_functions, mode, end_, cur_,
                result_, counts, dpc, log, first_error, verified, signature>>

mem_size == Len(memory)

(* Where the function loop continues: another iteration while index is     *)
(* below the function count, else the pass that follows.                   *)
FunctionLoopPos(i, after) ==
  IF i < Len(module.functions) THEN "functions" ELSE after

(* The result of looking an external function up in the FFI object.        *)
FfiLookups == {"no table", "not found", "not a function", "function"}

(* Instantiate: the memory size check, then the linear memory.             *)
Instantiate_Memory ==
  /\ entry = "Instantiate" /\ ipc = "memory"
  /\ IF module.mem_size_log2 > kMaxMemSize
     THEN /\ thrower' = Append(thrower, "Out of memory: wasm memory too large")
          /\ retval' = "empty" /\ ipc' = "done"
          /\ memory' = memory
     ELSE \E mem_buffer \in NewArrayBuffer(Shl(module.mem_size_log2)) :
            /\ memory' = mem_buffer
            /\ IF mem_buffer = <<>>
               THEN /\ thrower' = Append(thrower, "Out of memory: wasm memory")
                    /\ retval' = "empty" /\ ipc' = "done"
               ELSE /\ ipc' = "segments"
                    /\ UNCHANGED <<thrower, retval>>
  /\ UNCHANGED <<rvars, evars, dvars, global_offset, entry, calls, globals_area, linker, code_heap,
                 func_index, main_code, seg_log, compile_log, finish_log,
                 linked>>

(* The call of LoadDataSegments, in Instantiate and in                     *)
(* CompileAndRunWasmModule: a failing CHECK ends the process.              *)
LoadSegments ==
  /\ entry \in {"Instantiate", "CompileAndRunWasmModule"} /\ ipc = "segments"
  /\ LET r == LoadDataSegments(module.data_segments, 1, memory, <<>>)
     IN /\ memory' = r.mem
        /\ seg_log' = r.log
        /\ IF r.aborted
           THEN retval' = "abort" /\ ipc' = "done"
           ELSE /\ retval' = retval
                /\ ipc' = IF entry = "Instantiate" THEN "globals"
                          ELSE FunctionLoopPos(0, "link")
  /\ UNCHANGED <<rvars, evars, dvars, global_offset, entry, calls, globals_area, linker, code_heap,
                 func_index, main_code, thrower, compile_log, finish_log,
                 linked>>

(* Instantiate: the globals area, then the linker and the environment.     *)
Instantiate_Globals ==
  /\ entry = "Instantiate" /\ ipc = "globals"
  /\ LET globals_size == ComputeGlobalsSize(module.globals, 1, 0)
     IN \E globals_buffer \in
             (IF globals_size > 0 THEN NewArrayBuffer(mem_size) ELSE {<<>>}) :
          /\ globals_area' = globals_buffer
          /\ IF globals_size > 0 /\ globals_buffer = <<>>
             THEN /\ thrower' = Append(thrower, "Out of memory: wasm globals")
                  /\ retval' = "empty" /\ ipc' = "done"
                  /\ UNCHANGED linker
             ELSE /\ linker' = WasmLinker(Len(module.functions))
                  /\ ipc' = FunctionLoopPos(0, "link")
                  /\ UNCHANGED <<thrower, retval>>
  /\ func_index' = 0
  /\ UNCHANGED <<rvars, evars, dvars, global_offset, entry, calls, memory, code_heap, main_code, seg_log,
                 compile_log, finish_log, linked>>

(* Instantiate: one iteration of the first pass.  An external function is  *)
(* looked up in the FFI object and wrapped, any other is compiled; a       *)
(* failure of either returns the empty handle.                             *)
Instantiate_Function ==
  /\ entry = "Instantiate" /\ ipc = "functions"
  /\ LET func == module.functions[func_index + 1]
         Install(code, lk, heap, rec) ==
           /\ linker' = Finish(lk, func_index, code)
           /\ finish_log' = [finish_log EXCEPT ![func_index + 1] = code]
           /\ code_heap' = heap
           /\ compile_log' =
                Append(compile_log, rec)
           /\ func_index' = func_index + 1
           /\ ipc' = FunctionLoopPos(func_index + 1, "link")
           /\ UNCHANGED <<thrower, retval>>
         Abort(lk, msgs, rec) ==
           /\ linker' = lk
           /\ thrower' = thrower \o msgs
           /\ retval' = "empty" /\ ipc' = "done"
           /\ compile_log' =
                Append(compile_log, rec)
           /\ UNCHANGED <<finish_log, code_heap, func_index>>
     IN IF func.external
        THEN \E found \in FfiLookups :
               CASE found = "function" ->
                      Install(CompileWasmToJSWrapper(func_index), linker,
                              code_heap,
                              [index |-> func_index, did |-> "wrapped"])
                 [] found = "not a function" ->
                      Abort(linker, <<"FFI function is not a JSFunction.">>,
                            [index |-> func_index, did |-> "unresolved"])
                 [] found = "not found" ->
                      Abort(linker, <<"FFI function not found.">>,
                            [index |-> func_index, did |-> "unresolved"])
                 [] OTHER ->
                      Abort(linker, <<"FFI table is not an object.">>,
                            [index |-> func_index, did |-> "unresolved"])
        ELSE \E outcome \in CompileOutcomes(calls[func_index + 1]) :
               LET c == CompileFunction(TRUE, linker, code_heap,
                                        calls[func_index + 1], func_index,
                                        outcome)
               IN IF c.code = NullCode
                  THEN Abort(c.lk,
                            (IF c.failed
                             THEN <<"Compiling WASM function failed:">>
                             ELSE <<>>) \o <<"Compilation failed.">>,
                            Compiled(TRUE, func, func_index, "failed"))
                  ELSE Install(c.code, c.lk, c.heap,
                               Compiled(TRUE, func, func_index, "compiled"))
  /\ UNCHANGED <<rvars, evars, dvars, global_offset, entry, calls, memory, globals_area, main_code,
                 seg_log, linked>>

(* Instantiate: the second pass, then the module object is returned.       *)
Instantiate_Link ==
  /\ entry = "Instantiate" /\ ipc = "link"
  /\ LET r == Link(linker, code_heap)
     IN /\ code_heap' = r.heap
        /\ linked' = ~r.crashed
        /\ retval' = IF r.crashed THEN "abort" ELSE "module"
  /\ ipc' = "done"
  /\ UNCHANGED <<rvars, evars, dvars, global_offset, entry, calls, memory, globals_area, linker,
                 func_index, main_code, thrower, seg_log, compile_log,
                 finish_log>>

(* CompileAndRunWasmModule(isolate, module) up to its environment:        *)
(* memory of 1 << mem_size_log2 bytes and globals area, both zeroed, the   *)
(* globals' offsets assigned, the linker made.                             *)
CompileAndRun_Allocate ==
  /\ entry = "CompileAndRunWasmModule" /\ ipc = "memory"
  /\ LET g == AllocateGlobalsOffsets(module.globals, 1, 0)
     IN /\ module' = [module EXCEPT !.globals = g.globals]
        /\ globals_area' = Zeroed(g.size)
  /\ memory' = Zeroed(Shl(module.mem_size_log2))
  /\ linker' = WasmLinker(Len(module.functions))
  /\ ipc' = "segments"
  /\ UNCHANGED <<rvars, evars, dvars_rest, global_offset, entry, calls, code_heap, func_index, main_code,
                 thrower, retval, seg_log, compile_log, finish_log, linked>>

(* CompileAndRunWasmModule: one iteration of its loop.  An external        *)
(* function is passed over; any other is compiled, and finished when code  *)
(* came out; an error in the thrower returns -1.                           *)
CompileAndRun_Function ==
  /\ entry = "CompileAndRunWasmModule" /\ ipc = "functions"
  /\ LET func == module.functions[func_index + 1]
     IN IF func.external
        THEN /\ compile_log' =
                  Append(compile_log, [index |-> func_index, did |-> "skipped"])
             /\ func_index' = func_index + 1
             /\ ipc' = FunctionLoopPos(func_index + 1, "link")
             /\ UNCHANGED <<linker, code_heap, main_code, thrower, retval,
                            finish_log>>
        ELSE \E outcome \in CompileOutcomes(calls[func_index + 1]) :
               LET c == CompileFunction(TRUE, linker, code_heap,
                                        calls[func_index + 1], func_index,
                                        outcome)
                   got == c.code # NullCode
               IN /\ linker' = IF got THEN Finish(c.lk, func_index, c.code)
                               ELSE c.lk
                  /\ finish_log' =
                       IF got
                       THEN [finish_log EXCEPT ![func_index + 1] = c.code]
                       ELSE finish_log
                  /\ main_code' =
                       IF got /\ func.exported THEN c.code ELSE main_code
                  /\ code_heap' = c.heap
                  /\ compile_log' =
                       Append(compile_log,
                              Compiled(TRUE, func, func_index,
                                       IF got THEN "compiled" ELSE "failed"))
                  /\ IF c.failed
                     THEN /\ thrower' = Append(thrower,
                                          "Compiling WASM function failed:")
                          /\ retval' = "-1" /\ ipc' = "done"
                          /\ UNCHANGED func_index
                     ELSE /\ func_index' = func_index + 1
                          /\ ipc' = FunctionLoopPos(func_index + 1, "link")
                          /\ UNCHANGED <<thrower, retval>>
  /\ UNCHANGED <<rvars, evars, dvars, global_offset, entry, calls, memory, globals_area, seg_log, linked>>

(* CompileAndRunWasmModule after its loop: with a main code, Link() and    *)
(* the run of the main code; without one, an exception and -1.             *)
CompileAndRun_Link ==
  /\ entry = "CompileAndRunWasmModule" /\ ipc = "link"
  /\ IF main_code # NullCode
     THEN LET r == Link(linker, code_heap)
          IN /\ code_heap' = r.heap
             /\ linked' = ~r.crashed
             /\ retval' = IF r.crashed THEN "abort" ELSE "ran"
     ELSE /\ retval' = "-1"
          /\ UNCHANGED <<code_heap, linked>>
  /\ ipc' = "done"
  /\ UNCHANGED <<rvars, evars, dvars, global_offset, entry, calls, memory, globals_area, linker,
                 func_index, main_code, thrower, seg_log, compile_log,
                 finish_log>>

(* Instantiate of src/wasm/wasm-module.cc up to its environment: the       *)
(* memory size check, the backing store, the data segments (the loop of    *)
(* LoadDataSegments, inline), the function_code table.                     *)
InstantiateNoLinker_Memory ==
  /\ entry = "InstantiateNoLinker" /\ ipc = "memory"
  /\ IF module.mem_size_log2 > kMaxMemSize
     THEN /\ thrower' = Append(thrower, "Out of memory: wasm memory too large")
          /\ retval' = "empty" /\ ipc' = "done"
          /\ UNCHANGED <<memory, seg_log, linker>>
     ELSE \E backing_store \in NewArrayBuffer(Shl(module.mem_size_log2)) :
            IF backing_store = <<>>
            THEN /\ thrower' = Append(thrower, "Out of memory: wasm memory")
                 /\ retval' = "empty" /\ ipc' = "done"
                 /\ UNCHANGED <<memory, seg_log, linker>>
            ELSE LET r == LoadDataSegments(module.data_segments, 1,
                                           backing_store, <<>>)
                 IN /\ memory' = r.mem
                    /\ seg_log' = r.log
                    /\ linker' = WasmLinker(Len(module.functions))
                    /\ thrower' = thrower
                    /\ IF r.aborted
                       THEN retval' = "abort" /\ ipc' = "done"
                       ELSE /\ retval' = retval
                            /\ ipc' = FunctionLoopPos(0, "patch")
  /\ UNCHANGED <<rvars, evars, dvars, global_offset, entry, calls, globals_area, code_heap, func_index,
                 main_code, compile_log, finish_log, linked>>

(* Instantiate of src/wasm/wasm-module.cc: one iteration of the first      *)
(* pass.  The code of a function that compiled goes into the table; a      *)
(* function that did not compile leaves its entry null, and the loop goes  *)
(* on.                                                                     *)
InstantiateNoLinker_Function ==
  /\ entry = "InstantiateNoLinker" /\ ipc = "functions"
  /\ LET func == module.functions[func_index + 1]
     IN IF func.external
        THEN /\ compile_log' =
                  Append(compile_log, [index |-> func_index, did |-> "skipped"])
             /\ UNCHANGED <<linker, code_heap>>
        ELSE \E outcome \in CompileOutcomes(calls[func_index + 1]) :
               LET c == CompileFunction(FALSE, linker, code_heap,
                                        calls[func_index + 1], func_index,
                                        outcome)
                   got == c.code # NullCode
               IN /\ linker' =
                       IF got
                       THEN [c.lk EXCEPT !.function_code_[func_index + 1] =
                                           c.code]
                       ELSE c.lk
                  /\ code_heap' = c.heap
                  /\ compile_log' =
                       Append(compile_log,
                              Compiled(FALSE, func, func_index,
                                       IF got THEN "compiled" ELSE "failed"))
  /\ func_index' = func_index + 1
  /\ ipc' = FunctionLoopPos(func_index + 1, "patch")
  /\ UNCHANGED <<rvars, evars, dvars, global_offset, entry, calls, memory, globals_area, main_code,
                 thrower, retval, seg_log, finish_log, linked>>

(* Instantiate of src/wasm/wasm-module.cc: the second pass, in which       *)
(* PatchDirectCalls does nothing, then the module object is returned.      *)
InstantiateNoLinker_Patch ==
  /\ entry = "InstantiateNoLinker" /\ ipc = "patch"
  /\ retval' = "module"
  /\ ipc' = "done"
  /\ UNCHANGED <<rvars, evars, dvars, global_offset, entry, calls, memory, globals_area, linker,
                 code_heap, func_index, main_code, thrower, seg_log,
                 compile_log, finish_log, linked>>

----------------------------------------------------------------------------
(* The byte strings the decoder is run on.  The module format is           *)
(* little-endian; the encoders follow MODULE_HEADER and the layout of the  *)
(* module in TEST(Run_WasmModule_CallAdd_rev).                             *)

U16(v) == <<v % 256, (v \div 256) % 256>>
U32(v) == <<v % 256, (v \div 256) % 256, (v \div 65536) % 256,
            (v \div 16777216) % 256>>

RECURSIVE Flatten(_)
Flatten(ss) == IF ss = <<>> THEN <<>> ELSE Head(ss) \o Flatten(Tail(ss))

SeqsUpTo(S, n) == UNION {[1..k -> S] : k \in 0..n}

(* Offsets are chosen relative to the module's size: 0, the size itself    *)
(* (the largest offset in bounds) and one byte past it.                    *)
OffsetAt(kind, size) ==
  CASE kind = "zero" -> 0
    [] kind = "size" -> size
    [] OTHER -> size + 1

Body == <<1, 2>>

SigVariants ==
  {<<0, kAstI32>>, <<1, kAstI32, kAstI32>>, <<0, 9>>, <<1, kAstI32, kAstStmt>>}

GlobalVariants == [type : {kMemI64, 77}]

FuncVariants ==
  [sig : {<<1, kAstI32, kAstI32>>, <<0, 9>>}, code_start : {"zero", "size"},
   code_end : {"zero", "size", "past"}, external : {0, 1}]

SegVariants == [source_offset : {"zero", "past"}, init : {0, 1}]

MODULE_HEADER(globals_count, functions_count, data_segments_count) ==
  <<16, 0>> \o U16(globals_count) \o U16(functions_count)
    \o U16(data_segments_count)

EncodeGlobal(g) == U32(0) \o <<g.type, 1>>

EncodeFunction(f, size) ==
  f.sig \o U32(0) \o U32(OffsetAt(f.code_start, size))
    \o U32(OffsetAt(f.code_end, size))
    \o U16(258) \o U16(0) \o U16(0) \o U16(0) \o <<1, f.external>>

EncodeSegment(s, size) ==
  U32(259) \o U32(OffsetAt(s.source_offset, size)) \o U32(2) \o <<s.init>>

RECURSIVE SumLen(_)
SumLen(ss) == IF ss = <<>> THEN 0 ELSE Len(Head(ss)) + SumLen(Tail(ss))

ModuleSize(m) ==
  8 + 6 * Len(m.globals)
    + SumLen([i \in 1..Len(m.functions) |-> m.functions[i].sig])
    + 22 * Len(m.functions) + 13 * Len(m.data_segments) + Len(Body)

EncodeModule(m) ==
  LET size == ModuleSize(m)
  IN MODULE_HEADER(Len(m.globals), Len(m.functions), Len(m.data_segments))
       \o Flatten([i \in 1..Len(m.globals) |-> EncodeGlobal(m.globals[i])])
       \o Flatten([i \in 1..Len(m.functions) |->
                      EncodeFunction(m.functions[i], size)])
       \o Flatten([i \in 1..Len(m.data_segments) |->
                      EncodeSegment(m.data_segments[i], size)])
       \o Body

GoodFunction ==
  [sig |-> <<1, kAstI32, kAstI32>>, code_start |-> "zero", code_end |-> "size",
   external |-> 0]

ReferenceModule ==
  [globals |-> <<[type |-> kMemI64]>>, functions |-> <<GoodFunction>>,
   data_segments |-> <<[source_offset |-> "zero", init |-> 1]>>]

(* The module of TEST(Run_WasmModule_CallAdd_rev): a function without     *)
(* parameters followed by one with two.                                    *)
CallAdd_rev ==
  [globals |-> <<>>,
   functions |-> <<[sig |-> <<0, kAstI32>>, code_start |-> "zero",
                    code_end |-> "size", external |-> 0],
                   [sig |-> <<2, kAstI32, kAstI32, kAstF64>>,
                    code_start |-> "zero", code_end |-> "size",
                    external |-> 0]>>,
   data_segments |-> <<>>]

Prefixes(s) == {SubSeq(s, 1, n) : n \in 0..Len(s)}

(* Modules whose function table varies, modules whose globals and data     *)
(* segments vary, and every truncation of one module with all three.       *)
ModuleInputs ==
  {EncodeModule([globals |-> <<>>, functions |-> fs, data_segments |-> <<>>]) :
     fs \in SeqsUpTo(FuncVariants, MaxFunctions)}
  \cup
  {EncodeModule([globals |-> gs, functions |-> <<GoodFunction>>,
                 data_segments |-> ss]) :
     gs \in SeqsUpTo(GlobalVariants, MaxGlobals),
     ss \in SeqsUpTo(SegVariants, MaxSegments)}
  \cup Prefixes(EncodeModule(ReferenceModule))
  \cup {EncodeModule(CallAdd_rev)}

(* Inline signatures of up to MaxParams parameters: every return byte and  *)
(* parameter byte is a local type or the invalid 9; truncated too.         *)
SignatureTypes == {kAstStmt, kAstI32, kAstF64, 9}

SignatureInputs ==
  UNION {Prefixes(<<p, r>> \o ps) :
           p \in 0..MaxParams, r \in SignatureTypes,
           ps \in UNION {[1..n -> SignatureTypes] : n \in 0..MaxParams}}

(* A single function: signature, four local counts, body; truncated too.   *)
FunctionInputs ==
  UNION {Prefixes(s \o U16(258) \o U16(0) \o U16(0) \o U16(0) \o Body) :
           s \in SigVariants}

(* ModuleDecoder::ModuleDecoder: the registers after construction over     *)
(* [module_start, module_end).                                             *)
ModuleDecoder(module_end) ==
  [end |-> IF module_end < start_ THEN start_ ELSE module_end,
   result |-> IF module_end < start_
              THEN error(NoError, start_, "end is less than start")
              ELSE NoError]

EmptyModule ==
  [module_end |-> 0, mem_size_log2 |-> 0, mem_export |-> FALSE,
   globals |-> <<>>, functions |-> <<>>, data_segments |-> <<>>]

(* No test function is running.                                           *)
IdleRun ==
  /\ test = "" /\ arg = 0 /\ local0 = 0 /\ frames = <<>>
  /\ rpc = "idle" /\ value = 0 /\ tail = 0 /\ trace = <<>>

(* No function literal is being compiled: the builder as constructed.      *)
IdleEmit ==
  /\ literal = <<>> /\ todo = <<>> /\ emitted = <<>>
  /\ in_function_ = FALSE /\ block_depth_ = 0 /\ breakable_blocks_ = <<>>
  /\ epc = "idle" /\ labels = <<>>
  /\ jump_log = <<>> /\ block_log = <<>> /\ op_log = <<>>

(* No instantiation is under way.                                          *)
IdleInst ==
  /\ entry = "" /\ ipc = "idle" /\ calls = <<>>
  /\ memory = <<>> /\ globals_area = <<>>
  /\ linker = WasmLinker(0) /\ code_heap = <<>>
  /\ func_index = 0 /\ main_code = NullCode
  /\ thrower = <<>> /\ retval = ""
  /\ seg_log = <<>> /\ compile_log = <<>> /\ finish_log = <<>>
  /\ linked = FALSE /\ global_offset = 0

InitDecode ==
  /\ IdleInst /\ IdleRun /\ IdleEmit
  /\ \/ mode = "module" /\ bytes \in ModuleInputs /\ verify_functions \in BOOLEAN
     \/ mode = "function" /\ bytes \in FunctionInputs /\ verify_functions = TRUE
     \/ /\ mode = "signature" /\ bytes \in SignatureInputs
        /\ verify_functions = FALSE
  /\ little_endian \in BOOLEAN
  /\ beyond = 85   \* never read: checkAvailable refuses every read past end_
  /\ \E module_end \in {Len(bytes)} \cup (IF bytes = <<>> THEN {-1} ELSE {}) :
       LET dec == ModuleDecoder(module_end)
       IN /\ end_ = dec.end
          /\ result_ = dec.result
          /\ first_error = dec.result
  /\ cur_ = start_
  /\ module = EmptyModule
  /\ counts = [globals |-> 0, functions |-> 0, data_segments |-> 0]
  /\ dpc = <<"start", 0>>
  /\ log = <<>>
  /\ verified = <<>>
  /\ signature = [built |-> NoSignature, returned |-> NoSignature]

NextDecode ==
  \/ DecodeModuleHeader
  \/ DecodeGlobal
  \/ DecodeFunction
  \/ DecodeDataSegment
  \/ DecodeSingleFunction
  \/ DecodeFunctionSignature

SpecDecode == InitDecode /\ [][NextDecode]_vars

----------------------------------------------------------------------------
(* kMaxGlobalsSize of the tests: the size of a TestingModule's globals     *)
(* area.                                                                   *)
kMaxGlobalsSize == 128

(* TestingModule::AddGlobal: the global is appended at the next multiple   *)
(* of its size at or above global_offset, which then moves to the          *)
(* global's end; the CHECK_LT aborts the test when that reaches            *)
(* kMaxGlobalsSize.  The bytes of the malloc'ed area are left out: nothing *)
(* here reads them.                                                        *)
AddGlobal ==
  /\ entry = "TestingModule" /\ ipc = "globals"
  /\ Len(module.globals) <= MaxGlobals
  /\ \E type \in {kMemI8, kMemI32, kMemI64} :
       LET size == MemSize(type)
           aligned == AlignUp(global_offset, size)
       IN /\ module' = [module EXCEPT !.globals =
                          Append(@, [name_offset |-> 0, type |-> type,
                                     offset |-> aligned, exported |-> FALSE])]
          /\ global_offset' = aligned + size
          /\ ipc' = IF aligned + size < kMaxGlobalsSize THEN "globals"
                    ELSE "aborted"
  /\ UNCHANGED <<rvars, evars, dvars_rest, entry, calls, memory, globals_area, linker,
                 code_heap, func_index, main_code, thrower, retval, seg_log,
                 compile_log, finish_log, linked>>

(* The decoded modules the entry points are run on.  Globals are as the    *)
(* decoder leaves them, every offset 0.                                    *)

ModuleImage == <<16, 0, 31, 32, 33, 34, 35, 36>>

InstFunction(exported, external) ==
  WasmFunction([returns |-> <<kAstI32>>, params |-> <<>>],
               <<0, 0, Len(ModuleImage), 0, 0, 0, 0, exported, external>>)

(* The direct calls of a body among n functions, in body order: none,      *)
(* one, two to the same function, two to different ones.                   *)
CallLists(n) ==
  {<<>>} \cup {<<c>> : c \in 0..(n - 1)}
    \cup {s \in (0..(n - 1)) \X (0..(n - 1)) : s[1] <= s[2]}

InstGlobals == {WasmGlobal(<<0, t, 0>>) : t \in {kMemI8, kMemI32, kMemI64}}

InstSegments ==
  {WasmDataSegment(<<d, 0, n, i>>) : d \in {0, 1, 2}, n \in {0, 1, 2},
                                     i \in {0, 1}}

(* Segments whose source begins at the last byte of the module: offset()  *)
(* accepts every source_offset up to the module size, and source_size is  *)
(* a u32 the decoder does not compare with anything.                      *)
InstSegmentsAtEnd ==
  {WasmDataSegment(<<0, Len(ModuleImage) - 1, n, 1>>) : n \in {1, 2}}

InstModule(log2, globals, functions, data_segments) ==
  [module_end |-> Len(ModuleImage), mem_size_log2 |-> log2,
   mem_export |-> FALSE, globals |-> globals, functions |-> functions,
   data_segments |-> data_segments]

(* The mark of a function without a body.                                 *)
ExternalBody == <<-1>>

(* Function tables of up to MaxFunctions functions, each external or with  *)
(* a body of direct calls, the first `ne` exported.                        *)
FunctionTables ==
  UNION {
    {[functions |-> [i \in 1..n |->
                       InstFunction(IF i <= ne THEN 1 ELSE 0,
                                    IF cs[i] = ExternalBody THEN 1 ELSE 0)],
      calls |-> [i \in 1..n |->
                   IF cs[i] = ExternalBody THEN <<>> ELSE cs[i]]] :
       cs \in [1..n -> CallLists(n) \cup {ExternalBody}],
       ne \in {0, 1, n}} :
    n \in 0..MaxFunctions}

MainOnly == [functions |-> <<InstFunction(1, 0)>>, calls |-> <<<<>>>>]

(* Exported functions with up to two parameters and up to two declared     *)
(* locals, of the types the tests sum memory with.                         *)
InstFunctionsWithLocals ==
  {WasmFunction([returns |-> <<kAstI32>>, params |-> ps],
                <<0, 0, Len(ModuleImage), i32, 0, 0, f64, 1, 0>>) :
     ps \in {<<>>, <<kAstI32>>, <<kAstI32, kAstF64>>},
     i32 \in {0, 1}, f64 \in {0, 1}}

(* Modules whose function table varies; modules whose only function has    *)
(* parameters and locals; modules whose memory size and globals vary;      *)
(* modules whose memory size and data segments vary.                       *)
InstModules ==
  {[module |-> InstModule(1, <<>>, <<f>>, <<>>), calls |-> MainOnly.calls] :
     f \in InstFunctionsWithLocals}
  \cup
  {[module |-> InstModule(1, <<>>, t.functions, <<>>), calls |-> t.calls] :
     t \in FunctionTables}
  \cup
  {[module |-> InstModule(log2, gs, MainOnly.functions, <<>>),
    calls |-> MainOnly.calls] :
     log2 \in 0..(kMaxMemSize + 1), gs \in SeqsUpTo(InstGlobals, MaxGlobals)}
  \cup
  {[module |-> InstModule(log2, <<>>, MainOnly.functions, ss),
    calls |-> MainOnly.calls] :
     log2 \in 0..(kMaxMemSize + 1), ss \in SeqsUpTo(InstSegments, MaxSegments)}
  \cup
  {[module |-> InstModule(kMaxMemSize, <<>>, MainOnly.functions, <<seg>>),
    calls |-> MainOnly.calls] : seg \in InstSegmentsAtEnd}

(* No decoding is under way: the module is decoded, the bytes are its      *)
(* image.                                                                  *)
IdleDecode ==
  /\ bytes = ModuleImage /\ little_endian = TRUE /\ verify_functions = FALSE
  /\ mode = "" /\ end_ = Len(ModuleImage) /\ cur_ = start_
  /\ result_ = NoError /\ first_error = NoError
  /\ counts = [globals |-> 0, functions |-> 0, data_segments |-> 0]
  /\ dpc = <<"done", 0>> /\ log = <<>> /\ verified = <<>>
  /\ signature = [built |-> NoSignature, returned |-> NoSignature]

(* A TestingModule after AllocModule: no globals, no functions.            *)
TestingModule ==
  [module |-> InstModule(0, <<>>, <<>>, <<>>), calls |-> <<>>]

InitInst ==
  /\ IdleDecode /\ IdleRun /\ IdleEmit
  /\ beyond \in Beyond
  /\ \/ /\ entry \in {"Instantiate", "InstantiateNoLinker",
                       "CompileAndRunWasmModule"}
        /\ \E m \in InstModules : module = m.module /\ calls = m.calls
        /\ ipc = "memory"
     \/ /\ entry = "TestingModule"
        /\ module = TestingModule.module /\ calls = TestingModule.calls
        /\ ipc = "globals"
  /\ global_offset = 0
  /\ memory = <<>> /\ globals_area = <<>>
  /\ linker = WasmLinker(0)
  /\ code_heap = [i \in DOMAIN module.functions |-> <<>>]
  /\ func_index = 0 /\ main_code = NullCode
  /\ thrower = <<>> /\ retval = ""
  /\ seg_log = <<>> /\ compile_log = <<>>
  /\ finish_log = [i \in DOMAIN module.functions |-> NullCode]
  /\ linked = FALSE

NextInst ==
  \/ Instantiate_Memory
  \/ LoadSegments
  \/ Instantiate_Globals
  \/ Instantiate_Function
  \/ Instantiate_Link
  \/ CompileAndRun_Allocate
  \/ CompileAndRun_Function
  \/ CompileAndRun_Link
  \/ InstantiateNoLinker_Memory
  \/ InstantiateNoLinker_Function
  \/ InstantiateNoLinker_Patch
  \/ AddGlobal

SpecInst == InitInst /\ [][NextInst]_vars

----------------------------------------------------------------------------
(* Properties of the decoder (SpecDecode).                                 *)

Done == dpc[1] = "done"

(* A read in the history that found fewer bytes than it needs.             *)
Short(e) == e.before + e.n > end_

(* The value of the n bytes at offset o in the build's byte order.         *)
RECURSIVE StreamValue(_, _, _)
StreamValue(o, n, k) ==
  IF k = n THEN 0 ELSE FieldByte(o, n, k) + 256 * StreamValue(o, n, k + 1)

(* C1: the cursor stays in [start, end]; every u8/u16/u32 read consumes    *)
(* only bytes inside [start, end): it advances by n only when              *)
(* cur + n <= end, and when fewer than n bytes remain it leaves an error   *)
(* latched, returns 0 and does not move the cursor.                        *)
C1_ReadsInBounds ==
  /\ start_ <= cur_ /\ cur_ <= end_
  /\ \A k \in DOMAIN log :
       /\ start_ <= log[k].before /\ log[k].after <= end_
       /\ log[k].after # log[k].before =>
            log[k].after = log[k].before + log[k].n
       /\ Short(log[k]) =>
            /\ log[k].after = log[k].before
            /\ log[k].val = 0
            /\ failed(result_)

(* C1's case: decoding ended on a read that found some bytes, but fewer    *)
(* than it needs, after reads that succeeded.                              *)
C1_Witness ==
  /\ Done
  /\ \E k \in DOMAIN log :
       /\ Short(log[k]) /\ log[k].before < end_ /\ log[k].n > 1
       /\ \E j \in 1..(k - 1) : log[j].after = log[j].before + log[j].n

(* C2, as claimed: every function entry of a module DecodeModule accepts   *)
(* has code_start <= code_end <= module size.                              *)
C2_CodeRangeOrdered ==
  (mode = "module" /\ Done /\ ok(result_)) =>
    \A i \in DOMAIN module.functions :
      /\ module.functions[i].code_start_offset
           <= module.functions[i].code_end_offset
      /\ module.functions[i].code_end_offset <= end_ - start_

C10_FirstErrorWins ==
  failed(first_error) => result_ = first_error

(* C10's case: an invalid local type was latched, and a later read of the  *)
(* same run fell off the end, which is an error of its own.                *)
C10_Witness ==
  /\ Done
  /\ first_error.error_msg = "invalid local type"
  /\ \E k \in DOMAIN log : log[k].failed /\ Short(log[k])

----------------------------------------------------------------------------
(* Properties of the linker and the entry points (SpecInst).               *)

(* C3, as claimed: after Link() has run, no direct-call site targets a     *)
(* placeholder, final[i] (function_code_[i]) is the compiled code of every *)
(* function i that is not external, and the wrapper supplied from outside  *)
(* of every function that is.                                              *)
C3_LinkedNoPlaceholders ==
  linked =>
    /\ \A i \in DOMAIN code_heap : \A k \in DOMAIN code_heap[i] :
         ~IsPlaceholder(code_heap[i][k].target)
    /\ \A i \in DOMAIN module.functions :
         IF module.functions[i].external
         THEN linker.function_code_[i] = CompileWasmToJSWrapper(i - 1)
         ELSE linker.function_code_[i] = CompiledCode(i - 1)

(* C4: after Link(), every direct-call site to a function that was         *)
(* finished targets the code passed to Finish for it, whether the callee   *)
(* was finished before the call was compiled or referenced first through   *)
(* a placeholder.                                                          *)
C4_CallSitesTargetFinishedCode ==
  linked =>
    \A i \in DOMAIN code_heap : \A k \in DOMAIN code_heap[i] :
      LET site == code_heap[i][k]
      IN finish_log[site.callee + 1] # NullCode =>
           site.target = finish_log[site.callee + 1]

(* C4's case: two functions that call each other were compiled and         *)
(* linked, so one call was compiled before its callee (a placeholder was   *)
(* made for it) and the other after.                                       *)
C4_Witness ==
  /\ linked
  /\ \E i \in DOMAIN code_heap : \E j \in DOMAIN code_heap :
       /\ i < j
       /\ linker.placeholder_code_[j] # NullCode
       /\ linker.placeholder_code_[i] = NullCode
       /\ \E k \in DOMAIN code_heap[i] :
            /\ code_heap[i][k].callee = j - 1
            /\ code_heap[i][k].target = finish_log[j]
       /\ \E k \in DOMAIN code_heap[j] :
            /\ code_heap[j][k].callee = i - 1
            /\ code_heap[j][k].target = finish_log[i]
       /\ finish_log[i] = CompiledCode(i - 1)
       /\ finish_log[j] = CompiledCode(j - 1)

(* C5, as claimed: a segment with init set is copied exactly when          *)
(* dest_addr + source_size <= mem_size; one that is not copied ends the    *)
(* run with a hard error and leaves the memory as it was.                  *)
C5_SegmentCopiedIffFits ==
  \A k \in DOMAIN seg_log :
    module.data_segments[k].init =>
      /\ seg_log[k].did = "copied" <=>
           module.data_segments[k].dest_addr
             + module.data_segments[k].source_size <= Len(seg_log[k].before)
      /\ seg_log[k].did # "copied" =>
           /\ seg_log[k].did = "aborted"
           /\ retval = "abort"
           /\ memory = seg_log[k].before

(* C6, as claimed: when Instantiate fails to compile a function or to      *)
(* resolve an external one, it reports an error and returns no module      *)
(* object, handles no later function and runs no second pass.              *)
C6_FailureGates ==
  entry \in {"Instantiate", "InstantiateNoLinker"} =>
    \A k \in DOMAIN compile_log :
      compile_log[k].did \in {"failed", "unresolved"} =>
        /\ k = Len(compile_log)
        /\ ipc = "done"
        /\ retval = "empty"
        /\ thrower # <<>>
        /\ ~linked

(* C7, as claimed: when Instantiate has returned the module object of a    *)
(* module with globals, every global's offset is a multiple of its size,   *)
(* the zeroed globals area holds offset + size bytes of every global, and  *)
(* no two globals overlap.                                                 *)
C7_GlobalsLaidOut ==
  (entry = "Instantiate" /\ retval = "module" /\ module.globals # <<>>) =>
    /\ globals_area = Zeroed(Len(globals_area))
    /\ \A k \in DOMAIN module.globals :
         /\ module.globals[k].offset % MemSize(module.globals[k].type) = 0
         /\ module.globals[k].offset + MemSize(module.globals[k].type)
              <= Len(globals_area)
    /\ \A j \in DOMAIN module.globals : \A k \in DOMAIN module.globals :
         j < k =>
           \/ module.globals[j].offset + MemSize(module.globals[j].type)
                <= module.globals[k].offset
           \/ module.globals[k].offset + MemSize(module.globals[k].type)
                <= module.globals[j].offset

(* C8, as claimed: a module whose mem_size_log2 exceeds kMaxMemSize is     *)
(* rejected with no linear memory allocated and no data segment applied;   *)
(* any other gets a memory of exactly 1 << mem_size_log2 bytes that is all *)
(* zero when the first data segment is applied.                            *)
C8_MemorySizeGate ==
  IF module.mem_size_log2 > kMaxMemSize
  THEN /\ memory = <<>>
       /\ seg_log = <<>>
       /\ ipc = "done" => retval = "empty" /\ thrower # <<>>
  ELSE memory # <<>> =>
         /\ Len(memory) = Shl(module.mem_size_log2)
         /\ ipc = "segments" => memory = Zeroed(Len(memory))
         /\ seg_log # <<>> => seg_log[1].before = Zeroed(Len(memory))

----------------------------------------------------------------------------
(* Further properties of the decoder (SpecDecode).                         *)

(* The last function handed to the verifier was refused: result_ holds     *)
(* the verifier's error.                                                   *)
VerificationFailed ==
  /\ verified # <<>>
  /\ failed(result_)
  /\ result_.error_msg \in VerifyMessages(verified[Len(verified)])

(* C11: DecodeModule hands to the verifier, in table order and in the same *)
(* step that decodes the entry, every function that is not external and    *)
(* whose entry decoded without error, when verify_functions is set, and    *)
(* nothing when it is not; an external function is never handed over.      *)
(* Once the verifier refuses a body, that function is the last one         *)
(* decoded, no data segment is decoded, and result_ is the verifier's      *)
(* error.                                                                  *)
C11_VerifyInOrderStopAtFirstFailure ==
  mode = "module" =>
    /\ ~verify_functions => verified = <<>>
    /\ \A k \in DOMAIN verified :
         /\ verified[k] + 1 \in DOMAIN module.functions
         /\ ~module.functions[verified[k] + 1].external
         /\ k > 1 => verified[k - 1] < verified[k]
    /\ verify_functions =>
         \A i \in DOMAIN module.functions :
           (~module.functions[i].external
              /\ (i < Len(module.functions) \/ ok(result_))) =>
             \E k \in DOMAIN verified : verified[k] = i - 1
    /\ VerificationFailed =>
         /\ Len(module.functions) = verified[Len(verified)] + 1
         /\ module.data_segments = <<>>
         /\ dpc[1] = "done"
         /\ result_.error_code = kError
         /\ result_.error_pc =
              module.functions[Len(module.functions)].code_start_offset

(* C11's case: the verifier refused a function's body while the module     *)
(* announced entries after it, which were then not decoded.                *)
C11_Witness ==
  /\ mode = "module" /\ Done /\ VerificationFailed
  /\ \/ counts.functions > Len(module.functions)
     \/ counts.data_segments > 0

(* The reads of the last step that offset() made.                          *)
OffsetReads == {k \in DOMAIN log : log[k].role = "offset"}

----------------------------------------------------------------------------
(* Further properties of Instantiate and CompileAndRunWasmModule           *)
(* (SpecInst).                                                             *)

DeclaredLocals(f) ==
  f.local_int32_count + f.local_int64_count + f.local_float32_count
    + f.local_float64_count

(* The entries of compile_log made by CompileFunction.                     *)
Compilations == {k \in DOMAIN compile_log :
                   compile_log[k].did \in {"compiled", "failed"}}

(* C13: the environment a function's body is decoded in has total_locals   *)
(* = number of parameters + the four local counts, so that the parameters  *)
(* have indices 0..P-1 and the first declared local has index P, below     *)
(* total_locals.                                                           *)
C13_TotalLocalsCountParameters ==
  \A k \in Compilations :
    LET f == module.functions[compile_log[k].index + 1]
        P == Len(f.sig.params)
    IN /\ compile_log[k].env.total_locals = P + DeclaredLocals(f)
       /\ DeclaredLocals(f) > 0 => P < compile_log[k].env.total_locals

(* C13 where it holds: in the environments of the CompileFunction that     *)
(* goes with the linker.                                                   *)
C13_TotalLocalsWithLinker ==
  entry # "InstantiateNoLinker" => C13_TotalLocalsCountParameters

(* C13's case: a function with parameters and declared locals was          *)
(* compiled by the CompileFunction that goes with the linker.              *)
C13_Witness ==
  /\ entry # "InstantiateNoLinker"
  /\ \E k \in Compilations :
       LET f == module.functions[compile_log[k].index + 1]
       IN /\ Len(f.sig.params) = 2 /\ DeclaredLocals(f) = 2
          /\ compile_log[k].env.total_locals = 4


(* The end of global k, and the end of the one before it.                  *)
GlobalEnd(k) == module.globals[k].offset + MemSize(module.globals[k].type)

PreviousEnd(k) == IF k = 1 THEN 0 ELSE GlobalEnd(k - 1)

(* The total AllocateGlobalsOffsets returned (CompileAndRunWasmModule      *)
(* makes the globals area of that size), or the test module's running      *)
(* offset.                                                                 *)
GlobalsTotal ==
  IF entry = "TestingModule" THEN global_offset ELSE Len(globals_area)

(* C14: after AllocateGlobalsOffsets, and after each AddGlobal of the test *)
(* module, every global's offset is a multiple of its MemType size and the *)
(* smallest such multiple not below the end of the previous global, the    *)
(* globals' byte ranges are pairwise disjoint, and the total is the end of *)
(* the last global.                                                        *)
C14_GlobalsAlignedPacked ==
  (\/ entry = "CompileAndRunWasmModule" /\ ipc # "memory"
   \/ entry = "TestingModule") =>
    /\ \A k \in DOMAIN module.globals :
         LET size == MemSize(module.globals[k].type)
         IN /\ module.globals[k].offset % size = 0
            /\ module.globals[k].offset >= PreviousEnd(k)
            /\ module.globals[k].offset - PreviousEnd(k) < size
    /\ \A j \in DOMAIN module.globals : \A k \in DOMAIN module.globals :
         j < k => GlobalEnd(j) <= module.globals[k].offset
    /\ GlobalsTotal = PreviousEnd(Len(module.globals) + 1)

(* C14's case: AllocateGlobalsOffsets laid out an I8 global followed by an *)
(* I64 global, which needs seven bytes of padding.                         *)
C14_Witness ==
  /\ entry = "CompileAndRunWasmModule" /\ ipc # "memory"
  /\ Len(module.globals) = 2
  /\ module.globals[1].type = kMemI8 /\ module.globals[2].type = kMemI64
  /\ module.globals[2].offset = 8 /\ Len(globals_area) = 16


(* LoadDataSegments went through all the module's segments.                *)
SegmentsLoaded ==
  /\ memory # <<>>
  /\ Len(seg_log) = Len(module.data_segments)
  /\ \A k \in DOMAIN seg_log : seg_log[k].did # "aborted"

(* The segments with init set that cover the byte at address a.            *)
Covering(a) ==
  {k \in DOMAIN module.data_segments :
     /\ module.data_segments[k].init
     /\ module.data_segments[k].dest_addr <= a
     /\ a < module.data_segments[k].dest_addr
              + module.data_segments[k].source_size}

Last(S) == CHOOSE k \in S : \A j \in S : j <= k

(* The byte segment k holds for address a.                                 *)
SegmentByte(k, a) ==
  ByteAt(module.data_segments[k].source_offset
           + (a - module.data_segments[k].dest_addr))

(* C15: the data segments are applied in module order, each to the memory  *)
(* the one before it left, starting from zeroed memory; a segment without  *)
(* init writes nothing; afterwards a byte covered by segments with init    *)
(* holds the byte of the last of them, and an uncovered byte is zero.      *)
C15_SegmentsInOrderLastWins ==
  SegmentsLoaded =>
    /\ \A k \in DOMAIN seg_log :
         /\ seg_log[k].before =
              IF k = 1 THEN Zeroed(Len(memory)) ELSE seg_log[k - 1].after
         /\ ~module.data_segments[k].init =>
              seg_log[k].after = seg_log[k].before
    /\ seg_log # <<>> => memory = seg_log[Len(seg_log)].after
    /\ \A a \in 0..(Len(memory) - 1) :
         memory[a + 1] = IF Covering(a) = {} THEN 0
                         ELSE SegmentByte(Last(Covering(a)), a)

(* C15's case: two segments with init overlap in a byte for which they     *)
(* hold different values, and the memory has the second one's.             *)
C15_Witness ==
  /\ SegmentsLoaded
  /\ \E a \in 0..(Len(memory) - 1) :
       /\ Covering(a) = {1, 2}
       /\ SegmentByte(1, a) # SegmentByte(2, a)
       /\ memory[a + 1] = SegmentByte(2, a)


(* The memory after LoadDataSegments is run once more on the memory as it  *)
(* is.                                                                     *)
LoadedAgain == LoadDataSegments(module.data_segments, 1, memory, <<>>)

(* C16: for a segment list that loads without error into freshly zeroed   *)
(* memory, loading it a second time into the resulting memory changes      *)
(* nothing: the memory after two loads is the memory after one.            *)
C16_LoadTwiceSameMemory ==
  SegmentsLoaded => ~LoadedAgain.aborted /\ LoadedAgain.mem = memory

(* C16's case: a list of two overlapping segments with different bytes was *)
(* loaded into zeroed memory and changed it.                               *)
C16_Witness ==
  /\ SegmentsLoaded
  /\ memory # Zeroed(Len(memory))
  /\ \E a \in 0..(Len(memory) - 1) :
       Covering(a) = {1, 2} /\ SegmentByte(1, a) # SegmentByte(2, a)
  /\ LoadedAgain.mem = memory


(* Link() run once more on the code as it is.                              *)
LinkedAgain == Link(linker, code_heap)

(* Function i's code calls function c through a site that was compiled     *)
(* before c had code, hence with c's placeholder as target.                *)
ForwardCall(i, k) ==
  /\ finish_log[i] = CompiledCode(i - 1)
  /\ code_heap[i][k].callee >= i - 1

(* C17: once Link() has run to its end, a second Link() rewrites no call   *)
(* target and sets no modified flag, so no instruction cache is flushed.   *)
C17_SecondLinkChangesNothing ==
  linked =>
    /\ ~LinkedAgain.crashed
    /\ LinkedAgain.heap = code_heap
    /\ LinkedAgain.flushed = {}

(* C17's case: the first Link() rewrote a call made through a              *)
(* placeholder, which now targets the callee's code.                       *)
C17_Witness ==
  /\ linked
  /\ \E i \in DOMAIN code_heap : \E k \in DOMAIN code_heap[i] :
       /\ ForwardCall(i, k)
       /\ linker.placeholder_code_[code_heap[i][k].callee + 1] # NullCode
       /\ code_heap[i][k].target = CompiledCode(code_heap[i][k].callee)
  /\ LinkedAgain.flushed = {}


----------------------------------------------------------------------------
(* Byte order and byte counts of the decoder (SpecDecode).                 *)

(* The little-endian value of the n bytes at offset o of the stream:       *)
(* b0 + 2^8 b1 + ... in stream order.                                      *)
RECURSIVE LittleEndianValue(_, _)
LittleEndianValue(o, n) ==
  IF n = 0 THEN 0 ELSE bytes[o + 1] + 256 * LittleEndianValue(o + 1, n - 1)

(* C18, as claimed: on every build a u16 read that finds its bytes returns *)
(* b0 + 256 b1 and a u32 read b0 + 2^8 b1 + 2^16 b2 + 2^24 b3 for the      *)
(* bytes b0, b1, .. in stream order, within the width, and the cursor      *)
(* advances by 2 and 4.                                                    *)
C18_LittleEndianOnEveryBuild ==
  \A k \in DOMAIN log :
    (log[k].n \in {2, 4} /\ ~Short(log[k])) =>
      /\ log[k].val = LittleEndianValue(log[k].before, log[k].n)
      /\ log[k].val >= 0
      /\ log[k].n = 2 => log[k].val < 65536
      /\ log[k].after = log[k].before + log[k].n

(* C18 where it holds: on a build with V8_TARGET_LITTLE_ENDIAN.            *)
C18_LittleEndianOnLittleEndianBuild ==
  little_endian => C18_LittleEndianOnEveryBuild

(* C18's case on the build where it holds: a u16 and a u32 whose bytes     *)
(* differ were read in one step.                                           *)
C18_Witness ==
  /\ little_endian
  /\ \E k \in DOMAIN log :
       /\ log[k].n = 2 /\ ~Short(log[k])
       /\ bytes[log[k].before + 1] # bytes[log[k].before + 2]
       /\ log[k].val = bytes[log[k].before + 1]
                         + 256 * bytes[log[k].before + 2]
  /\ \E k \in DOMAIN log :
       /\ log[k].n = 4 /\ ~Short(log[k])
       /\ bytes[log[k].before + 1] # bytes[log[k].before + 4]
       /\ log[k].val = LittleEndianValue(log[k].before, 4)


(* The bytes of a function entry with the decoded signature: count and     *)
(* return type, one byte per parameter, then 22 bytes of fields.           *)
FunctionEntrySize(f) == 2 + Len(f.sig.params) + 22

RECURSIVE FunctionEntriesSize(_)
FunctionEntriesSize(fs) ==
  IF fs = <<>> THEN 0
  ELSE FunctionEntrySize(Head(fs)) + FunctionEntriesSize(Tail(fs))

(* Where entry k of each table starts in the stream, given the entries     *)
(* decoded so far.                                                         *)
GlobalStart(k) == 8 + 6 * (k - 1)

FunctionStart(k) ==
  8 + 6 * counts.globals + FunctionEntriesSize(SubSeq(module.functions, 1, k - 1))

SegmentStart(k) ==
  8 + 6 * counts.globals + FunctionEntriesSize(module.functions) + 13 * (k - 1)

(* C19: while DecodeModule has met no error, the cursor is 8 bytes of      *)
(* header, 6 per decoded global, 2 + param_count + 22 per decoded function *)
(* and 13 per decoded data segment past the start; globals come first,     *)
(* then functions, then segments; each entry holds the fields found at its *)
(* place in the stream; and at the end each vector holds as many entries   *)
(* as the header's count says.                                             *)
C19_EntrySizesAndOrder ==
  (mode = "module" /\ dpc[1] # "start" /\ ok(result_)) =>
    /\ cur_ = 8 + 6 * Len(module.globals)
                + FunctionEntriesSize(module.functions)
                + 13 * Len(module.data_segments)
    /\ module.functions # <<>> => Len(module.globals) = counts.globals
    /\ module.data_segments # <<>> =>
         /\ Len(module.globals) = counts.globals
         /\ Len(module.functions) = counts.functions
    /\ \A k \in DOMAIN module.globals :
         /\ module.globals[k].type = bytes[GlobalStart(k) + 5]
         /\ module.globals[k].exported = (bytes[GlobalStart(k) + 6] # 0)
    /\ \A k \in DOMAIN module.functions :
         LET f == module.functions[k]
             o == FunctionStart(k)
         IN /\ Len(f.sig.params) = bytes[o + 1]
            /\ \A j \in DOMAIN f.sig.params : f.sig.params[j] = bytes[o + 2 + j]
            /\ f.exported = (bytes[o + FunctionEntrySize(f) - 1] # 0)
            /\ f.external = (bytes[o + FunctionEntrySize(f)] # 0)
    /\ \A k \in DOMAIN module.data_segments :
         module.data_segments[k].init = (bytes[SegmentStart(k) + 13] # 0)
    /\ Done =>
         /\ Len(module.globals) = counts.globals
         /\ Len(module.functions) = counts.functions
         /\ Len(module.data_segments) = counts.data_segments

(* C19's case: a module with entries in all three tables was decoded       *)
(* without error.                                                          *)
C19_Witness ==
  /\ mode = "module" /\ Done /\ ok(result_)
  /\ Len(module.globals) = 2 /\ Len(module.functions) = 1
  /\ Len(module.data_segments) = 2
  /\ cur_ = 8 + 12 + 25 + 26

(* C19's case with functions of different sizes: a function without        *)
(* parameters and one with two were decoded without error.                 *)
C19_WitnessSignatures ==
  /\ mode = "module" /\ Done /\ ok(result_)
  /\ Len(module.functions) = 2
  /\ Len(module.functions[1].sig.params) = 0
  /\ Len(module.functions[2].sig.params) = 2
  /\ cur_ = 8 + 24 + 26


----------------------------------------------------------------------------
(* Inline signatures (SpecDecode, DecodeFunctionSignature).                *)

(* The stream holds the count byte, the return byte and as many parameter  *)
(* bytes as the count says.                                                *)
SignatureComplete == Len(bytes) >= 2 /\ Len(bytes) >= 2 + bytes[1]

ParamBytes == [j \in 1..bytes[1] |-> bytes[2 + j]]

(* Every type byte of the signature is a local type, and no parameter is   *)
(* kAstStmt.                                                               *)
SignatureValid ==
  /\ bytes[2] \in LocalTypes
  /\ \A j \in 1..bytes[1] : ParamBytes[j] \in LocalTypes \ {kAstStmt}

(* What C20 says of a stream that holds the whole signature.               *)
C20_CompleteSignature ==
    /\ Len(signature.built[1].params) = bytes[1]
    /\ cur_ = 2 + bytes[1]
    /\ IF SignatureValid
       THEN /\ ok(result_)
            /\ signature.returned =
                 <<[returns |-> IF bytes[2] = kAstStmt THEN <<>>
                                ELSE <<bytes[2]>>,
                    params |-> ParamBytes]>>
       ELSE /\ failed(result_)
            /\ result_.error_msg \in {"invalid local type",
                                      "invalid void parameter type"}
            /\ signature.returned = NoSignature

(* C20: an inline signature with count byte p and return byte r decodes to *)
(* a signature with no return when r is kAstStmt and the one return r      *)
(* otherwise, and with exactly p parameters, the bytes that follow in      *)
(* stream order; a type byte that is no local type, or kAstStmt as a       *)
(* parameter, latches an error, and DecodeFunctionSignature then returns   *)
(* no signature, as it does when the stream ends inside the signature.     *)
C20_SignatureDecoded ==
  (mode = "signature" /\ Done) =>
    /\ ~SignatureComplete =>
         failed(result_) /\ signature.returned = NoSignature
    /\ SignatureComplete => C20_CompleteSignature

(* C20's cases: a void signature with two parameters was returned; a       *)
(* signature with kAstStmt as a parameter was refused; one with an invalid *)
(* type byte was refused.                                                  *)
C20_Witness ==
  /\ mode = "signature" /\ Done
  /\ bytes = <<2, kAstStmt, kAstI32, kAstF64>>
  /\ signature.returned = <<[returns |-> <<>>, params |-> <<kAstI32, kAstF64>>]>>

C20_WitnessVoidParameter ==
  /\ mode = "signature" /\ Done
  /\ bytes = <<1, kAstI32, kAstStmt>>
  /\ signature.returned = NoSignature
  /\ result_.error_msg = "invalid void parameter type"

C20_WitnessInvalidType ==
  /\ mode = "signature" /\ Done
  /\ bytes = <<1, kAstI32, 9>>
  /\ signature.returned = NoSignature
  /\ result_.error_msg = "invalid local type" /\ result_.error_pc = 2

----------------------------------------------------------------------------
(* WasmRunner: the control-flow tests of test-run-wasm.cc.  A test builds  *)
(* one function of signature (I32)->I32 from a body written with the       *)
(* WASM_* macros and checks r.Call(input) against an expected value.  The  *)
(* bodies, inputs and expected values are the tests'; how a body runs is   *)
(* the bytecode's control-flow rule (labels, Break depth, Switch           *)
(* fallthrough), which the graph builder implements.                       *)

MaxCount == 5
MaxCases == 31
MaxTrace == 128

NoExpr == [k |-> "none", n |-> 0, kids |-> <<>>]
WASM_GET_LOCAL(i) == [k |-> "GetLocal", n |-> i, kids |-> <<>>]
WASM_I8(v) == [k |-> "I8", n |-> v, kids |-> <<>>]
WASM_I32(v) == [k |-> "I32", n |-> v, kids |-> <<>>]
WASM_I32_SUB(x, y) == [k |-> "I32Sub", n |-> 0, kids |-> <<x, y>>]
WASM_NOT(x) == [k |-> "BoolNot", n |-> 0, kids |-> <<x>>]

WASM_NOP == [k |-> "Nop", n |-> 0, e |-> NoExpr, kids |-> <<>>]
WASM_EXPR(x) == [k |-> "Expr", n |-> 0, e |-> x, kids |-> <<>>]
WASM_SET_LOCAL(i, x) == [k |-> "SetLocal", n |-> i, e |-> x, kids |-> <<>>]
WASM_RETURN(x) == [k |-> "Return", n |-> 0, e |-> x, kids |-> <<>>]
WASM_BREAK(depth) == [k |-> "Break", n |-> depth, e |-> NoExpr, kids |-> <<>>]
WASM_IF(cond, tstmt) == [k |-> "If", n |-> 0, e |-> cond, kids |-> <<tstmt>>]
WASM_BLOCK(count, stmts) == [k |-> "Block", n |-> count, e |-> NoExpr, kids |-> stmts]
WASM_LOOP(count, stmts) == [k |-> "Loop", n |-> count, e |-> NoExpr, kids |-> stmts]
WASM_SWITCH(count, key, cases) ==
  [k |-> "Switch", n |-> count, e |-> key, kids |-> cases]
WASM_SWITCH_NF(count, key, cases) ==
  [k |-> "SwitchNf", n |-> count, e |-> key, kids |-> cases]
WASM_WHILE(cond, stmt) ==
  WASM_LOOP(2, <<WASM_IF(WASM_NOT(cond), WASM_BREAK(0)), stmt>>)

(* The bodies of the tests, as the BUILD calls give them.                  *)

CountDownStep == WASM_SET_LOCAL(0, WASM_I32_SUB(WASM_GET_LOCAL(0), WASM_I8(1)))

Run_Wasm_CountDown ==
  <<WASM_BLOCK(2, <<WASM_LOOP(2, <<WASM_IF(WASM_NOT(WASM_GET_LOCAL(0)), WASM_BREAK(0)),
                                   CountDownStep>>),
                    WASM_RETURN(WASM_GET_LOCAL(0))>>)>>

Run_Wasm_CountDown_fallthru ==
  <<WASM_BLOCK(2, <<WASM_LOOP(2, <<WASM_IF(WASM_NOT(WASM_GET_LOCAL(0)), WASM_BREAK(0)),
                                   CountDownStep>>),
                    WASM_EXPR(WASM_GET_LOCAL(0))>>)>>

Run_Wasm_WhileCountDown ==
  <<WASM_BLOCK(2, <<WASM_WHILE(WASM_GET_LOCAL(0), CountDownStep),
                    WASM_RETURN(WASM_GET_LOCAL(0))>>)>>

Run_Wasm_Loop_if_break1 ==
  <<WASM_BLOCK(2, <<WASM_LOOP(2, <<WASM_IF(WASM_GET_LOCAL(0), WASM_BREAK(0)),
                                   WASM_SET_LOCAL(0, WASM_I8(99))>>),
                    WASM_RETURN(WASM_GET_LOCAL(0))>>)>>

Run_Wasm_Loop_if_break_fallthru ==
  <<WASM_BLOCK(1, <<WASM_LOOP(2, <<WASM_IF(WASM_GET_LOCAL(0), WASM_BREAK(1)),
                                   WASM_SET_LOCAL(0, WASM_I8(93))>>)>>),
    WASM_EXPR(WASM_GET_LOCAL(0))>>

Run_Wasm_Switch0 ==
  <<WASM_BLOCK(2, <<WASM_SWITCH(0, WASM_GET_LOCAL(0), <<>>),
                    WASM_RETURN(WASM_GET_LOCAL(0))>>)>>

Run_Wasm_Switch1 ==
  <<WASM_BLOCK(2, <<WASM_SWITCH(1, WASM_GET_LOCAL(0),
                                <<WASM_SET_LOCAL(0, WASM_I8(44))>>),
                    WASM_RETURN(WASM_GET_LOCAL(0))>>)>>

Run_Wasm_Switch4_fallthru ==
  <<WASM_BLOCK(2, <<WASM_SWITCH(4, WASM_GET_LOCAL(0),
                                <<WASM_NOP, WASM_RETURN(WASM_I8(45)),
                                  WASM_NOP, WASM_RETURN(WASM_I8(47))>>),
                    WASM_RETURN(WASM_GET_LOCAL(0))>>)>>

Run_Wasm_Switch_Ret_N(i) ==
  <<WASM_BLOCK(2, <<WASM_SWITCH(i, WASM_GET_LOCAL(0),
                                [j \in 1..i |-> WASM_RETURN(WASM_I32(10 + (j - 1)))]),
                    WASM_RETURN(WASM_GET_LOCAL(0))>>)>>

Run_Wasm_Switch_Nf_N(i) ==
  <<WASM_BLOCK(2, <<WASM_SWITCH_NF(i, WASM_GET_LOCAL(0),
                                   [j \in 1..i |-> WASM_SET_LOCAL(0, WASM_I32(10 + (j - 1)))]),
                    WASM_RETURN(WASM_GET_LOCAL(0))>>)>>

(* The loop bounds of Switch_Ret_N and Switch_Nf_N: i = 3; i < 256; i += 28 *)
SwitchSizes == {i \in 3..MaxCases : (i - 3) % 28 = 0}

Test(name, i) == [name |-> name, i |-> i]

BodyOf(t) ==
  CASE t.name = "CountDown" -> Run_Wasm_CountDown
    [] t.name = "CountDown_fallthru" -> Run_Wasm_CountDown_fallthru
    [] t.name = "WhileCountDown" -> Run_Wasm_WhileCountDown
    [] t.name = "Loop_if_break1" -> Run_Wasm_Loop_if_break1
    [] t.name = "Loop_if_break_fallthru" -> Run_Wasm_Loop_if_break_fallthru
    [] t.name = "Switch0" -> Run_Wasm_Switch0
    [] t.name = "Switch1" -> Run_Wasm_Switch1
    [] t.name = "Switch4_fallthru" -> Run_Wasm_Switch4_fallthru
    [] t.name = "Switch_Ret_N" -> Run_Wasm_Switch_Ret_N(t.i)
    [] t.name = "Switch_Nf_N" -> Run_Wasm_Switch_Nf_N(t.i)

CountDownTests == {"CountDown", "CountDown_fallthru", "WhileCountDown"}

(* The arguments each test calls its function with; the countdown bodies   *)
(* are also called with every count up to MaxCount.                        *)
InputsOf(t) ==
  CASE t.name \in CountDownTests -> {1, 10, 100} \cup (1..MaxCount)
    [] t.name = "Loop_if_break1" -> {0, 3, 10000, -29}
    [] t.name = "Loop_if_break_fallthru" -> {0, 3, 10001, -22}
    [] t.name = "Switch0" -> {0, 1, 2, 32}
    [] t.name = "Switch1" -> {0, 1, 2}
    [] t.name = "Switch4_fallthru" -> (-1)..4
    [] t.name \in {"Switch_Ret_N", "Switch_Nf_N"} -> (-1)..(t.i + 4)

(* The value each CHECK_EQ expects of r.Call(j).                           *)
ExpectedOf(t, j) ==
  CASE t.name \in CountDownTests -> 0
    [] t.name = "Loop_if_break1" -> IF j = 0 THEN 99 ELSE j
    [] t.name = "Loop_if_break_fallthru" -> IF j = 0 THEN 93 ELSE j
    [] t.name = "Switch0" -> j
    [] t.name = "Switch1" -> IF j = 0 THEN 44 ELSE j
    [] t.name = "Switch4_fallthru" ->
         IF j \in {0, 1} THEN 45 ELSE IF j \in {2, 3} THEN 47 ELSE j
    [] t.name \in {"Switch_Ret_N", "Switch_Nf_N"} ->
         IF j >= 0 /\ j < t.i THEN 10 + j ELSE j

TestRuns ==
  {Test(name, 0) : name \in CountDownTests \cup
                     {"Loop_if_break1", "Loop_if_break_fallthru", "Switch0",
                      "Switch1", "Switch4_fallthru"}}
  \cup {Test(name, i) : name \in {"Switch_Ret_N", "Switch_Nf_N"}, i \in SwitchSizes}

(* ---- how a body runs ----                                               *)

RECURSIVE Eval(_, _)
Eval(x, l) ==
  CASE x.k = "GetLocal" -> l
    [] x.k \in {"I8", "I32"} -> x.n
    [] x.k = "I32Sub" -> Eval(x.kids[1], l) - Eval(x.kids[2], l)
    [] x.k = "BoolNot" -> IF Eval(x.kids[1], l) = 0 THEN 1 ELSE 0

(* A statement list control is inside: the statements, the next one to     *)
(* run, the last one to run, and what construct the list belongs to.       *)
Frame(kind, stmts, pos, last) ==
  [kind |-> kind, stmts |-> stmts, pos |-> pos, last |-> last]

IsLabel(f) == f.kind \in {"Block", "Loop"}

Top == frames[Len(frames)]
AtStatement == rpc = "run" /\ frames # <<>> /\ Top.pos <= Top.last
Current == Top.stmts[Top.pos]
Advanced == [frames EXCEPT ![Len(frames)].pos = @ + 1]
Pop(fs) == SubSeq(fs, 1, Len(fs) - 1)

(* Break taken as a jump to the head of the label's list.                  *)
RECURSIVE BreakTo_head(_, _)
BreakTo_head(fs, depth) ==
  IF fs = <<>> THEN <<>>
  ELSE IF IsLabel(fs[Len(fs)])
       THEN IF depth = 0 THEN [fs EXCEPT ![Len(fs)].pos = 1]
            ELSE BreakTo_head(Pop(fs), depth - 1)
       ELSE BreakTo_head(Pop(fs), depth)

(* The frames left after Break(depth): every frame up to and including     *)
(* the depth-th enclosing label, counted from the innermost, is left.      *)
RECURSIVE BreakTo(_, _)
BreakTo(fs, depth) ==
  IF fs = <<>> THEN <<>>
  ELSE IF IsLabel(fs[Len(fs)])
       THEN IF depth = 0 THEN Pop(fs) ELSE BreakTo(Pop(fs), depth - 1)
       ELSE BreakTo(Pop(fs), depth)

(* The history keeps its first MaxTrace entries.                           *)
Record(tr, entry_) == IF Len(tr) < MaxTrace THEN Append(tr, entry_) ELSE tr

Mark(stmt) ==
  IF Top.kind \in {"Switch", "SwitchNf"}
  THEN Record(trace, [k |-> "case", n |-> Top.pos - 1])
  ELSE trace

Step(kind) == AtStatement /\ Current.k = kind

RunSimple ==
  /\ Step("Nop")
  /\ frames' = Advanced /\ trace' = Mark(Current)
  /\ UNCHANGED <<test, arg, local0, rpc, value, tail, dvars, ivars, evars>>

RunSetLocal ==
  /\ Step("SetLocal")
  /\ local0' = Eval(Current.e, local0)
  /\ frames' = Advanced /\ trace' = Mark(Current)
  /\ UNCHANGED <<test, arg, rpc, value, tail, dvars, ivars, evars>>

RunExpr ==
  /\ Step("Expr")
  /\ tail' = Eval(Current.e, local0)
  /\ frames' = Advanced /\ trace' = Mark(Current)
  /\ UNCHANGED <<test, arg, local0, rpc, value, dvars, ivars, evars>>

RunReturn ==
  /\ Step("Return")
  /\ value' = Eval(Current.e, local0)
  /\ rpc' = "returned" /\ frames' = <<>> /\ trace' = Mark(Current)
  /\ UNCHANGED <<test, arg, local0, tail, dvars, ivars, evars>>

RunIf ==
  /\ Step("If")
  /\ frames' = IF Eval(Current.e, local0) # 0
               THEN Append(Advanced, Frame("If", Current.kids, 1, 1))
               ELSE Advanced
  /\ trace' = Mark(Current)
  /\ UNCHANGED <<test, arg, local0, rpc, value, tail, dvars, ivars, evars>>

RunBreak ==
  /\ Step("Break")
  /\ frames' = BreakTo(frames, Current.n)
  /\ trace' = Record(Mark(Current), [k |-> "break", n |-> Current.n])
  /\ UNCHANGED <<test, arg, local0, rpc, value, tail, dvars, ivars, evars>>

RunBlock ==
  /\ Step("Block") \/ Step("Loop")
  /\ frames' = Append(Advanced, Frame(Current.k, Current.kids, 1, Current.n))
  /\ trace' = Mark(Current)
  /\ UNCHANGED <<test, arg, local0, rpc, value, tail, dvars, ivars, evars>>

(* Switch runs from the selected case to the last one, SwitchNf the        *)
(* selected case alone; a key outside 0..count-1 selects nothing.          *)
SwitchLast_fallthru(stmt, key) == stmt.n

SwitchLast(stmt, key) == IF stmt.k = "SwitchNf" THEN key + 1 ELSE stmt.n

RunSwitch ==
  /\ Step("Switch") \/ Step("SwitchNf")
  /\ LET key == Eval(Current.e, local0)
     IN frames' = IF key >= 0 /\ key < Current.n
                  THEN Append(Advanced, Frame(Current.k, Current.kids, key + 1,
                                              SwitchLast(Current, key)))
                  ELSE Advanced
  /\ trace' = Mark(Current)
  /\ UNCHANGED <<test, arg, local0, rpc, value, tail, dvars, ivars, evars>>

(* The end of a statement list: a loop goes back to its head, the          *)
(* function's own list returns the tail value, any other list is left.     *)
RunEnd ==
  /\ rpc = "run" /\ frames # <<>> /\ Top.pos > Top.last
  /\ Top.kind \notin {"Loop", "Func"}
  /\ frames' = Pop(frames)
  /\ UNCHANGED <<test, arg, local0, rpc, value, tail, trace, dvars, ivars, evars>>

RunBackEdge ==
  /\ rpc = "run" /\ frames # <<>> /\ Top.pos > Top.last
  /\ Top.kind = "Loop"
  /\ frames' = [frames EXCEPT ![Len(frames)].pos = 1]
  /\ trace' = Record(trace, [k |-> "back", n |-> 0])
  /\ UNCHANGED <<test, arg, local0, rpc, value, tail, dvars, ivars, evars>>

RunFallThru ==
  /\ rpc = "run"
  /\ \/ frames = <<>>
     \/ frames # <<>> /\ Top.pos > Top.last /\ Top.kind = "Func"
  /\ value' = tail /\ rpc' = "returned" /\ frames' = <<>>
  /\ UNCHANGED <<test, arg, local0, tail, trace, dvars, ivars, evars>>

InitRun ==
  /\ IdleDecode /\ IdleInst /\ IdleEmit
  /\ module = EmptyModule /\ beyond = 0
  /\ test \in TestRuns
  /\ arg \in InputsOf(test)
  /\ local0 = arg
  /\ frames = <<Frame("Func", BodyOf(test), 1, Len(BodyOf(test)))>>
  /\ rpc = "run" /\ value = 0 /\ tail = 0 /\ trace = <<>>

NextRun ==
  \/ RunSimple
  \/ RunSetLocal
  \/ RunExpr
  \/ RunReturn
  \/ RunIf
  \/ RunBreak
  \/ RunBlock
  \/ RunSwitch
  \/ RunEnd
  \/ RunBackEdge
  \/ RunFallThru

SpecRun == InitRun /\ [][NextRun]_vars

(* The function always takes its next step.                                *)
SpecRunFair == SpecRun /\ WF_vars(NextRun)

----------------------------------------------------------------------------
(* Properties of the control-flow tests.                                   *)

SwitchTests == {"Switch0", "Switch1", "Switch4_fallthru", "Switch_Ret_N", "Switch_Nf_N"}

Returned == rpc = "returned"

(* The switch statement of a switch test's body.                           *)
SwitchOf(t) == BodyOf(t)[1].kids[1]

(* The numbers of the switch cases that ran, in the order they ran.        *)
RECURSIVE CasesRun(_)
CasesRun(tr) ==
  IF tr = <<>> THEN <<>>
  ELSE IF Head(tr).k = "case" THEN <<Head(tr).n>> \o CasesRun(Tail(tr))
       ELSE CasesRun(Tail(tr))

(* The first case at or after `from` that is a Return, the last case if    *)
(* there is none.                                                          *)
RECURSIVE LeavesAt(_, _)
LeavesAt(sw, from) ==
  IF from >= sw.n - 1 \/ sw.kids[from + 1].k = "Return" THEN from
  ELSE LeavesAt(sw, from + 1)

CasesClaimed(sw, key) ==
  IF key < 0 \/ key >= sw.n THEN <<>>
  ELSE IF sw.k = "SwitchNf" THEN <<key>>
  ELSE [c \in 1..(LeavesAt(sw, key) - key + 1) |-> key + c - 1]

(* C21: in every switch test, a key in 0..k-1 runs the selected case and,  *)
(* for Switch, the cases after it in order until a Return leaves, for      *)
(* SwitchNf the selected case alone; a key outside 0..k-1 (negative, k or  *)
(* more, any key when k = 0) runs no case and control continues after the  *)
(* switch; and the call returns the value the test expects.                *)
C21_SwitchFallthroughAndRange ==
  (Returned /\ test.name \in SwitchTests) =>
     /\ CasesRun(trace) = CasesClaimed(SwitchOf(test), arg)
     /\ value = ExpectedOf(test, arg)
     /\ (arg < 0 \/ arg >= SwitchOf(test).n) => value = arg

C21_Witness ==
  /\ Returned /\ test.name = "Switch4_fallthru" /\ arg = 0
  /\ CasesRun(trace) = <<0, 1>> /\ value = 45

C21_WitnessNoFallthrough ==
  /\ Returned /\ test.name = "Switch_Nf_N" /\ test.i = 3 /\ arg = 1
  /\ CasesRun(trace) = <<1>> /\ value = 11

C21_WitnessOutOfRange ==
  /\ Returned /\ test.name = "Switch0" /\ arg = 32
  /\ CasesRun(trace) = <<>> /\ value = 32

Breaks(tr) == {i \in DOMAIN tr : tr[i].k = "break"}
BackEdges(tr) == {i \in DOMAIN tr : tr[i].k = "back"}

LoopTests == CountDownTests \cup {"Loop_if_break1", "Loop_if_break_fallthru"}

(* C22: every call of a loop test returns, with the value the test         *)
(* expects: 0 from the countdown bodies for every positive input.          *)
C22_LoopTestsTerminate ==
  (rpc = "run" /\ test.name \in LoopTests) ~>
     (Returned /\ value = ExpectedOf(test, arg))

(* C22: a loop test is left through exactly one Break, taken inside the    *)
(* loop; the countdown bodies reach the end of the loop body and go back   *)
(* to the loop head once per count.                                        *)
C22_LoopLeftByBreak ==
  (Returned /\ test.name \in LoopTests) =>
     /\ Cardinality(Breaks(trace)) = 1
     /\ value = ExpectedOf(test, arg)
     /\ test.name \in CountDownTests => Cardinality(BackEdges(trace)) = arg

C22_Witness ==
  /\ Returned /\ test.name = "CountDown" /\ arg = 10
  /\ Cardinality(BackEdges(trace)) = 10 /\ value = 0

C22_WitnessBreak1 ==
  /\ Returned /\ test.name = "Loop_if_break_fallthru" /\ arg = 0
  /\ Cardinality(BackEdges(trace)) = 1 /\ value = 93

----------------------------------------------------------------------------
(* The linker's two tables.                                                *)

(* The index a placeholder carries in its marker.                          *)
MarkerIndex(target) == target.constant_pool_offset - kPlaceholderMarker

(* GetFunctionCode(i) called now, and once more right after.               *)
GotNow(i) == GetFunctionCode(linker, i)
GotAgain(i) == GetFunctionCode(GotNow(i).lk, i)

(* C24: GetFunctionCode(i) returns function_code_[i] when it is set and    *)
(* otherwise makes the placeholder marked i + kPlaceholderMarker and       *)
(* stores it in both tables; no index ever gets a second placeholder;      *)
(* GetFunctionCode(i) called again before Finish(i) returns the same       *)
(* placeholder and changes nothing; Finish(i, code) changes only           *)
(* function_code_[i]; and every call site whose target carries marker i    *)
(* targets the placeholder recorded in placeholder_code_[i].               *)
C24_OnePlaceholderPerIndex ==
  /\ \A i \in DOMAIN linker.function_code_ :
       /\ linker.created[i] <= 1
       /\ linker.placeholder_code_[i] =
            IF linker.created[i] = 0 THEN NullCode ELSE PlaceholderCode(i - 1)
       /\ linker.function_code_[i] = NullCode => linker.created[i] = 0
       /\ IF linker.function_code_[i] # NullCode
          THEN GotNow(i - 1) = [lk |-> linker, code |-> linker.function_code_[i]]
          ELSE /\ GotNow(i - 1).code = PlaceholderCode(i - 1)
               /\ MarkerIndex(GotNow(i - 1).code) = i - 1
               /\ GotNow(i - 1).lk.placeholder_code_[i] = GotNow(i - 1).code
               /\ GotNow(i - 1).lk.function_code_[i] = GotNow(i - 1).code
       /\ GotAgain(i - 1) = [lk |-> GotNow(i - 1).lk, code |-> GotNow(i - 1).code]
       /\ \A c \in {CompiledCode(i - 1), CompileWasmToJSWrapper(i - 1)} :
            /\ Finish(linker, i - 1, c).placeholder_code_ = linker.placeholder_code_
            /\ Finish(linker, i - 1, c).created = linker.created
            /\ \A j \in DOMAIN linker.function_code_ :
                 Finish(linker, i - 1, c).function_code_[j] =
                   IF j = i THEN c ELSE linker.function_code_[j]
  /\ \A f \in DOMAIN code_heap : \A k \in DOMAIN code_heap[f] :
       LET target == code_heap[f][k].target
       IN IsPlaceholder(target) =>
            /\ MarkerIndex(target) + 1 \in DOMAIN linker.placeholder_code_
            /\ linker.placeholder_code_[MarkerIndex(target) + 1] = target

(* Two calls of one body took the same placeholder, the callee was         *)
(* finished later, and Link() patched both.                                *)
C24_Witness ==
  /\ linked
  /\ \E f \in DOMAIN code_heap : \E i \in DOMAIN linker.function_code_ :
       /\ f < i
       /\ Len(code_heap[f]) = 2
       /\ \A k \in DOMAIN code_heap[f] :
            /\ code_heap[f][k].callee = i - 1
            /\ code_heap[f][k].target = CompiledCode(i - 1)
       /\ linker.created[i] = 1
       /\ linker.placeholder_code_[i] = PlaceholderCode(i - 1)
       /\ linker.function_code_[i] = CompiledCode(i - 1)

----------------------------------------------------------------------------
(* The source range of a copied data segment.                              *)

SourceEnd(segment) == segment.source_offset + segment.source_size

(* C28, as claimed: every data segment LoadDataSegments copies has         *)
(* source_offset + source_size <= module size, so the copy reads only      *)
(* bytes of [module_start, module_end).                                    *)
C28_CopySourceInsideModule ==
  \A k \in DOMAIN seg_log :
    seg_log[k].did = "copied" =>
      SourceEnd(module.data_segments[k]) <= module.module_end

(* A copied segment whose source runs past module_end: the byte stored     *)
(* came from outside the module.                                           *)
C28_CopyPastModuleEnd ==
  \E k \in DOMAIN seg_log :
    /\ seg_log[k].did = "copied"
    /\ module.data_segments[k].source_offset <= module.module_end
    /\ SourceEnd(module.data_segments[k]) > module.module_end
    /\ \E a \in DOMAIN memory :
         /\ a = module.data_segments[k].dest_addr + module.data_segments[k].source_size
         /\ memory[a] = ByteAt(module.module_end)

----------------------------------------------------------------------------
(* AsmWasmBuilderImpl: the AST visitor that writes a function's body.      *)
(*                                                                         *)
(* An AST node is [k, id, op, ty, kids]: k the node class, id the identity *)
(* of a breakable statement, the target of a break or continue, or the     *)
(* index of a variable; op the token or call type; ty the node's asm type  *)
(* (bounds().lower); kids the children.  The statement visitors are steps  *)
(* of the walk; an expression is written in one step by the expression     *)
(* visitors, which touch neither block_depth_ nor breakable_blocks_.       *)

MaxNest == 2

Node(k, id, op, ty, kids) == [k |-> k, id |-> id, op |-> op, ty |-> ty, kids |-> kids]

NoNode == Node("", 0, "", "", <<>>)

(* What AppendCode / AddBody write: an opcode, or an operand byte.         *)
Opcode(prefix, name, sign) == [op |-> <<prefix, name, sign>>, n |-> 0]
Byte(v) == [op |-> <<"", "", "">>, n |-> v]

kExprBlock == Opcode("kExpr", "Block", "")
kExprLoop == Opcode("kExpr", "Loop", "")
kExprIf == Opcode("kExpr", "If", "")
kExprIfThen == Opcode("kExpr", "IfThen", "")
kExprBr == Opcode("kExpr", "Br", "")
kExprNop == Opcode("kExpr", "Nop", "")
kExprSetLocal == Opcode("kExpr", "SetLocal", "")
kExprGetLocal == Opcode("kExpr", "GetLocal", "")
kExprCallFunction == Opcode("kExpr", "CallFunction", "")
kExprBoolNot == Opcode("kExpr", "BoolNot", "")

(* ---- the expression visitors ----                                       *)

(* TypeIndexOf of one expression: -1 stands for UNREACHABLE().             *)
TypeIndexOf(expr) ==
  CASE expr.ty = "signed" -> 0
    [] expr.ty = "unsigned" -> 1
    [] expr.ty = "int" -> 0
    [] expr.ty = "float" -> 2
    [] expr.ty = "double" -> 3
    [] OTHER -> -1

(* TypeIndexOf(left, right, ignore_sign): the DCHECK on the pair is absent *)
(* from a release build; the index is the left operand's.                  *)
TypeIndexOf2(left, right, ignore_sign) == TypeIndexOf(left)

NON_SIGNED_BINOP(name) ==
  <<Opcode("kExprI32", name, ""), Opcode("kExprI32", name, ""),
    Opcode("kExprF32", name, ""), Opcode("kExprF64", name, "")>>

SIGNED_BINOP(name) ==
  <<Opcode("kExprI32", name, "S"), Opcode("kExprI32", name, "U"),
    Opcode("kExprF32", name, ""), Opcode("kExprF64", name, "")>>

NON_SIGNED_INT_BINOP(name) ==
  <<Opcode("kExprI32", name, ""), Opcode("kExprI32", name, "")>>

(* The BINOP_CASEs of VisitBinaryOperation and VisitCompareOperation: the  *)
(* token's opcode table and ignore_sign; an empty table is UNREACHABLE().  *)
BinopCase(table, ignore_sign) == [table |-> table, ignore_sign |-> ignore_sign]

BinaryCases(token) ==
  CASE token = "ADD" -> BinopCase(NON_SIGNED_BINOP("Add"), TRUE)
    [] token = "SUB" -> BinopCase(NON_SIGNED_BINOP("Sub"), TRUE)
    [] token = "MUL" -> BinopCase(NON_SIGNED_BINOP("Mul"), TRUE)
    [] token = "DIV" -> BinopCase(SIGNED_BINOP("Div"), FALSE)
    [] token = "BIT_OR" -> BinopCase(NON_SIGNED_INT_BINOP("Ior"), TRUE)
    [] token = "BIT_XOR" -> BinopCase(NON_SIGNED_INT_BINOP("Xor"), TRUE)
    [] token = "SHL" -> BinopCase(NON_SIGNED_INT_BINOP("Shl"), TRUE)
    [] token = "SAR" -> BinopCase(NON_SIGNED_INT_BINOP("ShrS"), TRUE)
    [] token = "SHR" -> BinopCase(NON_SIGNED_INT_BINOP("ShrU"), TRUE)
    [] OTHER -> BinopCase(<<>>, FALSE)

CompareCases(token) ==
  CASE token = "EQ" -> BinopCase(NON_SIGNED_BINOP("Eq"), FALSE)
    [] token = "LT" -> BinopCase(SIGNED_BINOP("Lt"), FALSE)
    [] token = "LTE" -> BinopCase(SIGNED_BINOP("Le"), FALSE)
    [] token = "GT" -> BinopCase(SIGNED_BINOP("Gt"), FALSE)
    [] token = "GTE" -> BinopCase(SIGNED_BINOP("Ge"), FALSE)
    [] OTHER -> BinopCase(<<>>, FALSE)

(* What an expression visit has produced: the bytes written, whether it    *)
(* ran into UNREACHABLE(), and the history of table lookups and of the     *)
(* node classes visited.                                                   *)
Written(bytes_, ok_, log_) == [code |-> bytes_, ok |-> ok_, log |-> log_]

NoOpcode == Opcode("", "", "")

Lookup(expr, index_, table, opcode) ==
  [what |-> "lookup", name |-> expr.op, left |-> expr.kids[1].ty,
   right |-> expr.kids[2].ty, index |-> index_, table |-> table,
   opcode |-> opcode, stopped |-> FALSE]

Shape(name, stopped) ==
  [what |-> "shape", name |-> name, left |-> "", right |-> "", index |-> 0,
   table |-> <<>>, opcode |-> NoOpcode, stopped |-> stopped]

(* opcodes[type]: the table's entry, or, for an index past the table's     *)
(* end, whatever the build has there (`foreign`).                          *)
TableEntry(table, type, foreign) ==
  IF type + 1 \in DOMAIN table THEN table[type + 1] ELSE foreign

RECURSIVE EmitExpr(_, _)

(* Visits in order; each starts where the last one stopped, none starts    *)
(* after UNREACHABLE().                                                    *)
RECURSIVE EmitAll(_, _, _)
EmitAll(exprs, foreign, acc) ==
  IF exprs = <<>> \/ ~acc.ok THEN acc
  ELSE LET r == EmitExpr(Head(exprs), foreign)
       IN EmitAll(Tail(exprs), foreign,
                  Written(acc.code \o r.code, r.ok, acc.log \o r.log))

VisitLiteral(expr) ==
  CASE expr.ty \in {"int", "signed", "unsigned"} ->
         Written(<<Opcode("kExpr", "I32Const", ""), Byte(expr.id)>>, TRUE, <<>>)
    [] expr.ty = "float" ->
         Written(<<Opcode("kExpr", "F32Const", ""), Byte(expr.id)>>, TRUE, <<>>)
    [] expr.ty = "double" ->
         Written(<<Opcode("kExpr", "F64Const", ""), Byte(expr.id)>>, TRUE, <<>>)
    [] OTHER -> Written(<<>>, FALSE, <<Shape("Literal", TRUE)>>)

VisitVariableProxy(expr, is_set_op_) ==
  IF expr.op = "function" \/ is_set_op_
  THEN Written(<<Byte(expr.id)>>, TRUE, <<>>)
  ELSE Written(<<kExprGetLocal, Byte(expr.id)>>, TRUE, <<>>)

VisitAssignment(expr, foreign) ==
  IF expr.kids[1].k = "VariableProxy"
  THEN EmitAll(<<expr.kids[2]>>, foreign,
               Written(<<kExprSetLocal>> \o VisitVariableProxy(expr.kids[1], TRUE).code,
                       TRUE, <<>>))
  ELSE Written(<<>>, FALSE, <<Shape("Assignment to " \o expr.kids[1].k, TRUE)>>)

VisitCall(expr, foreign) ==
  IF expr.op = "OTHER_CALL"
  THEN EmitAll(expr.kids, foreign, Written(<<kExprCallFunction>>, TRUE, <<>>))
  ELSE Written(<<>>, FALSE, <<Shape("Call " \o expr.op, TRUE)>>)

VisitUnaryOperation(expr, foreign) ==
  IF expr.op = "NOT" /\ TypeIndexOf(expr.kids[1]) >= 0
  THEN EmitAll(expr.kids, foreign, Written(<<kExprBoolNot>>, TRUE, <<>>))
  ELSE Written(<<>>, FALSE, <<Shape("UnaryOperation " \o expr.op, TRUE)>>)

(* VisitBinaryOperation and VisitCompareOperation                          *)
VisitBinop(expr, case, foreign) ==
  IF \/ case.table = <<>>
     \/ TypeIndexOf(expr.kids[1]) < 0 \/ TypeIndexOf(expr.kids[2]) < 0
  THEN Written(<<>>, FALSE, <<Shape(expr.k \o " " \o expr.op, TRUE)>>)
  ELSE LET type == TypeIndexOf2(expr.kids[1], expr.kids[2], case.ignore_sign)
           opcode == TableEntry(case.table, type, foreign)
       IN EmitAll(expr.kids, foreign,
                  Written(<<opcode>>, TRUE,
                          <<Lookup(expr, type, case.table, opcode)>>))

EmitExpr(expr, foreign) ==
  CASE expr.k = "Literal" -> VisitLiteral(expr)
    [] expr.k = "VariableProxy" -> VisitVariableProxy(expr, FALSE)
    [] expr.k = "Assignment" -> VisitAssignment(expr, foreign)
    [] expr.k = "Call" -> VisitCall(expr, foreign)
    [] expr.k \in {"CallNew", "CallRuntime"} ->
         Written(<<>>, FALSE, <<Shape(expr.k, TRUE)>>)
    [] expr.k = "UnaryOperation" -> VisitUnaryOperation(expr, foreign)
    [] expr.k = "BinaryOperation" -> VisitBinop(expr, BinaryCases(expr.op), foreign)
    [] expr.k = "CompareOperation" -> VisitBinop(expr, CompareCases(expr.op), foreign)
    [] expr.k \in {"CountOperation", "Conditional", "Property"} ->
         EmitAll(expr.kids, foreign, Written(<<>>, TRUE, <<Shape(expr.k, FALSE)>>))

(* ---- the statement visitors ----                                        *)

(* A visit under way or still to make.  "Visit" is Visit(node);            *)
(* "VisitStatements" is the call of VisitStatements on a list, owned by    *)
(* the block statement `owner` (0: the function literal or a case clause); *)
(* "Statements" is its for loop about to test i, with the length of the    *)
(* body before statement i - 1 (mark), the number of statements that have  *)
(* written something (made) and whether statement i - 1 IsJump; the rest   *)
(* are the parts of a visitor that follow its RECURSE, kept with history:  *)
(* the length of the body (mark), block_depth_ and breakable_blocks_ as    *)
(* they were when the visitor was entered.                                 *)
Task(do, node, list, i, mark, made, jumped, owner) ==
  [do |-> do, node |-> node, list |-> list, i |-> i, mark |-> mark,
   made |-> made, jumped |-> jumped, owner |-> owner,
   entry |-> [depth |-> 0, blocks |-> <<>>]]

VisitTask(node) == Task("Visit", node, <<>>, 0, 0, 0, FALSE, 0)
VisitStatementsTask(list, owner) == Task("VisitStatements", NoNode, list, 0, 0, 0, FALSE, owner)
ReturnTask(do) ==
  [Task(do, NoNode, <<>>, 0, Len(emitted), 0, FALSE, 0)
     EXCEPT !.entry = [depth |-> block_depth_, blocks |-> breakable_blocks_]]

Doing == todo[Len(todo)]
Rest == SubSeq(todo, 1, Len(todo) - 1)
Walking == epc = "walk" /\ todo # <<>>
Visiting(kind) == Walking /\ Doing.do = "Visit" /\ Doing.node.k = kind

(* The tasks in the order they are to run, as the end of `todo`.           *)
RECURSIVE Reversed(_)
Reversed(s) == IF s = <<>> THEN <<>> ELSE Reversed(Tail(s)) \o <<Head(s)>>
Then(tasks) == Rest \o Reversed(tasks)

(* Statement::IsJump                                                       *)
RECURSIVE IsJump(_)
IsJump(stmt) ==
  CASE stmt.k \in {"BreakStatement", "ContinueStatement", "ReturnStatement"} -> TRUE
    [] stmt.k = "Block" -> stmt.kids # <<>> /\ IsJump(stmt.kids[Len(stmt.kids)])
    [] stmt.k = "IfStatement" ->
         /\ stmt.kids[2].k # "EmptyStatement" /\ IsJump(stmt.kids[2])
         /\ stmt.kids[3].k # "EmptyStatement" /\ IsJump(stmt.kids[3])
    [] OTHER -> FALSE

(* What the out-of-table read of opcodes[type] can deliver.                *)
Foreign == {kExprNop, Opcode("kExprF64", "Mul", "")}

(* The visitor writes `prefix`, visits the expressions in order and, if    *)
(* none ran into UNREACHABLE() (which ends the process), writes `after`    *)
(* and goes on with `next`.                                                *)
Writes(prefix, exprs, after, next) ==
  \E foreign \in Foreign :
    LET r == EmitAll(exprs, foreign, Written(prefix, TRUE, <<>>))
    IN /\ emitted' = emitted \o r.code \o (IF r.ok THEN after ELSE <<>>)
       /\ op_log' = op_log \o r.log
       /\ epc' = IF r.ok THEN epc ELSE "unreachable"
       /\ todo' = IF r.ok THEN next ELSE todo

Label(kind, owner) == [kind |-> kind, owner |-> owner]

Jump(kind, operand, target) ==
  [kind |-> kind, operand |-> operand, target |-> target, labels |-> labels]

VisitFunctionDeclaration ==
  /\ epc = "start"
  /\ in_function_' = TRUE
  /\ epc' = "walk"
  /\ todo' = <<ReturnTask("VisitFunctionDeclaration"), VisitStatementsTask(literal, 0)>>
  /\ UNCHANGED <<literal, emitted, block_depth_, breakable_blocks_, labels,
                 jump_log, block_log, op_log, dvars, ivars, rvars>>

VisitFunctionDeclaration_return ==
  /\ Walking /\ Doing.do = "VisitFunctionDeclaration"
  /\ in_function_' = FALSE
  /\ epc' = "done"
  /\ todo' = Rest
  /\ UNCHANGED <<literal, emitted, block_depth_, breakable_blocks_, labels,
                 jump_log, block_log, op_log, dvars, ivars, rvars>>

(* VisitStatements up to its loop: the Block opcode and the list's length. *)
VisitStatements ==
  /\ Walking /\ Doing.do = "VisitStatements"
  /\ LET header == IF in_function_
                   THEN <<kExprBlock, Byte(Len(Doing.list))>> ELSE <<>>
     IN /\ emitted' = emitted \o header
        /\ todo' = Then(<<Task("Statements", NoNode, Doing.list, 1,
                               Len(emitted) + Len(header), 0, FALSE, Doing.owner)>>)
  /\ labels' = IF in_function_ THEN Append(labels, Label("Block", Doing.owner)) ELSE labels
  /\ UNCHANGED <<literal, in_function_, block_depth_, breakable_blocks_, epc,
                 jump_log, block_log, op_log, dvars, ivars, rvars>>

(* The number of statements of the list that have written something, once  *)
(* statement i - 1 is through.                                             *)
Made(task) ==
  task.made + (IF task.i > 1 /\ Len(emitted) > task.mark THEN 1 ELSE 0)

(* One turn of the loop of VisitStatements: Visit(stmts->at(i)).           *)
VisitStatements_next ==
  /\ Walking /\ Doing.do = "Statements"
  /\ Doing.i <= Len(Doing.list) /\ ~Doing.jumped
  /\ todo' = Then(<<VisitTask(Doing.list[Doing.i]),
                    Task("Statements", NoNode, Doing.list, Doing.i + 1, Len(emitted),
                         Made(Doing), IsJump(Doing.list[Doing.i]), Doing.owner)>>)
  /\ UNCHANGED <<literal, emitted, in_function_, block_depth_, breakable_blocks_,
                 epc, labels, jump_log, block_log, op_log, dvars, ivars, rvars>>

(* The loop of VisitStatements ends: the list is through, or the           *)
(* statement just visited IsJump.                                          *)
VisitStatements_return ==
  /\ Walking /\ Doing.do = "Statements"
  /\ Doing.i > Len(Doing.list) \/ Doing.jumped
  /\ todo' = Rest
  /\ labels' = IF in_function_ THEN SubSeq(labels, 1, Len(labels) - 1) ELSE labels
  /\ block_log' = Append(block_log, [count |-> Len(Doing.list),
                                     visited |-> Doing.i - 1,
                                     made |-> Made(Doing),
                                     owner |-> Doing.owner])
  /\ UNCHANGED <<literal, emitted, in_function_, block_depth_, breakable_blocks_,
                 epc, jump_log, op_log, dvars, ivars, rvars>>

VisitBlock ==
  /\ Visiting("Block")
  /\ block_depth_' = block_depth_ + 1
  /\ breakable_blocks_' = Append(breakable_blocks_,
                                 [first |-> Doing.node.id, second |-> FALSE])
  /\ todo' = Then(<<VisitStatementsTask(Doing.node.kids, Doing.node.id),
                    ReturnTask("VisitBlock")>>)
  /\ UNCHANGED <<literal, emitted, in_function_, epc, labels, jump_log, block_log,
                 op_log, dvars, ivars, rvars>>

VisitBlock_return ==
  /\ Walking /\ Doing.do = "VisitBlock"
  /\ block_depth_' = block_depth_ - 1
  /\ breakable_blocks_' = SubSeq(breakable_blocks_, 1, Len(breakable_blocks_) - 1)
  /\ todo' = Rest
  /\ UNCHANGED <<literal, emitted, in_function_, epc, labels, jump_log, block_log,
                 op_log, dvars, ivars, rvars>>

VisitExpressionStatement ==
  /\ Visiting("ExpressionStatement")
  /\ Writes(<<>>, Doing.node.kids, <<>>, Rest)
  /\ UNCHANGED <<literal, in_function_, block_depth_, breakable_blocks_, labels,
                 jump_log, block_log, dvars, ivars, rvars>>

VisitEmptyStatement ==
  /\ Visiting("EmptyStatement")
  /\ todo' = Rest
  /\ UNCHANGED <<literal, emitted, in_function_, block_depth_, breakable_blocks_,
                 epc, labels, jump_log, block_log, op_log, dvars, ivars, rvars>>

HasStatement(stmt) == stmt.k # "EmptyStatement"

VisitIfStatement ==
  /\ Visiting("IfStatement")
  /\ LET cond == Doing.node.kids[1]
         then_statement == Doing.node.kids[2]
         else_statement == Doing.node.kids[3]
     IN Writes(<<IF HasStatement(else_statement) THEN kExprIfThen ELSE kExprIf>>,
               <<cond>>,
               IF HasStatement(then_statement) THEN <<>> ELSE <<kExprNop>>,
               Then((IF HasStatement(then_statement)
                     THEN <<VisitTask(then_statement)>> ELSE <<>>)
                    \o (IF HasStatement(else_statement)
                        THEN <<VisitTask(else_statement)>> ELSE <<>>)))
  /\ UNCHANGED <<literal, in_function_, block_depth_, breakable_blocks_, labels,
                 jump_log, block_log, dvars, ivars, rvars>>

(* The loops of VisitContinueStatement and VisitBreakStatement over        *)
(* breakable_blocks_, from its last element down: `on_loop` is what the    *)
(* target itself adds when it is a loop.                                   *)
RECURSIVE BlockDistance(_, _, _)
BlockDistance(blocks, target, on_loop) ==
  IF blocks = <<>> THEN 0
  ELSE LET elem == blocks[Len(blocks)]
           below == SubSeq(blocks, 1, Len(blocks) - 1)
       IN IF elem.first = target
          THEN IF elem.second THEN on_loop ELSE 0
          ELSE (IF elem.second THEN 2 ELSE 1) + BlockDistance(below, target, on_loop)

VisitContinueStatement ==
  /\ Visiting("ContinueStatement")
  /\ LET block_distance == BlockDistance(breakable_blocks_, Doing.node.id, 0)
     IN /\ emitted' = emitted \o <<kExprBr, Byte(block_distance), kExprNop>>
        /\ jump_log' = Append(jump_log, Jump("continue", block_distance, Doing.node.id))
  /\ todo' = Rest
  /\ UNCHANGED <<literal, in_function_, block_depth_, breakable_blocks_, epc, labels,
                 block_log, op_log, dvars, ivars, rvars>>

VisitBreakStatement ==
  /\ Visiting("BreakStatement")
  /\ LET block_distance == BlockDistance(breakable_blocks_, Doing.node.id, 1)
     IN /\ emitted' = emitted \o <<kExprBr, Byte(block_distance), kExprNop>>
        /\ jump_log' = Append(jump_log, Jump("break", block_distance, Doing.node.id))
  /\ todo' = Rest
  /\ UNCHANGED <<literal, in_function_, block_depth_, breakable_blocks_, epc, labels,
                 block_log, op_log, dvars, ivars, rvars>>

VisitReturnStatement ==
  /\ Visiting("ReturnStatement")
  /\ Writes(IF in_function_ THEN <<kExprBr, Byte(block_depth_)>> ELSE <<>>,
            Doing.node.kids, <<>>, Rest)
  /\ jump_log' = IF in_function_
                 THEN Append(jump_log, Jump("return", block_depth_, 0))
                 ELSE jump_log
  /\ UNCHANGED <<literal, in_function_, block_depth_, breakable_blocks_, labels,
                 block_log, dvars, ivars, rvars>>

VisitWhileStatement ==
  /\ Visiting("WhileStatement")
  /\ block_depth_' = block_depth_ + 2
  /\ breakable_blocks_' = Append(breakable_blocks_,
                                 [first |-> Doing.node.id, second |-> TRUE])
  /\ Writes(<<kExprLoop, Byte(1), kExprIf>>, <<Doing.node.kids[1]>>,
            <<kExprBr, Byte(0)>>,
            Then(<<VisitTask(Doing.node.kids[2]),
                   [ReturnTask("VisitWhileStatement") EXCEPT !.node = Doing.node]>>))
  /\ labels' = Append(labels, Label("Loop", Doing.node.id))
  /\ UNCHANGED <<literal, in_function_, jump_log, block_log, dvars, ivars, rvars>>

(* The return that takes back one of the two units.                        *)
VisitWhileStatement_return_short ==
  /\ Walking /\ Doing.do = "VisitWhileStatement"
  /\ block_depth_' = block_depth_ - 1
  /\ breakable_blocks_' = SubSeq(breakable_blocks_, 1, Len(breakable_blocks_) - 1)
  /\ labels' = SubSeq(labels, 1, Len(labels) - 1)
  /\ todo' = Rest
  /\ UNCHANGED <<literal, emitted, in_function_, epc, jump_log, block_log, op_log,
                 dvars, ivars, rvars>>

VisitWhileStatement_return ==
  /\ Walking /\ Doing.do = "VisitWhileStatement"
  /\ block_depth_' = block_depth_ - 2
  /\ breakable_blocks_' = SubSeq(breakable_blocks_, 1, Len(breakable_blocks_) - 1)
  /\ labels' = SubSeq(labels, 1, Len(labels) - 1)
  /\ todo' = Rest
  /\ UNCHANGED <<literal, emitted, in_function_, epc, jump_log, block_log, op_log,
                 dvars, ivars, rvars>>

(* An expression visited on its own, from a visitor of a statement the     *)
(* builder has no bytecode for.                                            *)
ExpressionClasses ==
  {"Literal", "VariableProxy", "Assignment", "Call", "CallNew", "CallRuntime",
   "UnaryOperation", "BinaryOperation", "CompareOperation", "CountOperation",
   "Conditional", "Property"}

VisitExpression ==
  /\ Walking /\ Doing.do = "Visit" /\ Doing.node.k \in ExpressionClasses
  /\ Writes(<<>>, <<Doing.node>>, <<>>, Rest)
  /\ UNCHANGED <<literal, in_function_, block_depth_, breakable_blocks_, labels,
                 jump_log, block_log, dvars, ivars, rvars>>

(* The visitors that only visit their children, in the order given; NULL   *)
(* children (NoNode) are left out.                                         *)
VisitsChildren(kind, children) ==
  /\ Visiting(kind)
  /\ todo' = Then(SelectSeq([c \in DOMAIN children |-> VisitTask(children[c])],
                            LAMBDA t : t.node # NoNode))
  /\ op_log' = Append(op_log, Shape(kind, FALSE))
  /\ UNCHANGED <<literal, emitted, in_function_, block_depth_, breakable_blocks_,
                 epc, labels, jump_log, block_log, dvars, ivars, rvars>>

(* RECURSE(stmt->expression()); RECURSE(stmt->statement()): no Visit.      *)
VisitWithStatement == Visiting("WithStatement") /\ VisitsChildren("WithStatement", <<>>)

VisitDoWhileStatement ==
  Visiting("DoWhileStatement") /\
    VisitsChildren("DoWhileStatement", <<Doing.node.kids[2], Doing.node.kids[1]>>)

VisitForStatement == Visiting("ForStatement") /\ VisitsChildren("ForStatement", Doing.node.kids)

VisitForInStatement ==
  Visiting("ForInStatement") /\ VisitsChildren("ForInStatement", Doing.node.kids)

VisitForOfStatement ==
  Visiting("ForOfStatement") /\ VisitsChildren("ForOfStatement", Doing.node.kids)

VisitTryCatchStatement ==
  Visiting("TryCatchStatement") /\ VisitsChildren("TryCatchStatement", Doing.node.kids)

VisitTryFinallyStatement ==
  Visiting("TryFinallyStatement") /\ VisitsChildren("TryFinallyStatement", Doing.node.kids)

VisitDebuggerStatement ==
  Visiting("DebuggerStatement") /\ VisitsChildren("DebuggerStatement", <<>>)

(* VisitSwitchStatement: the tag, then per clause its label (unless it is  *)
(* the default clause) and VisitStatements on its statements.              *)
RECURSIVE ClauseTasks(_)
ClauseTasks(clauses) ==
  IF clauses = <<>> THEN <<>>
  ELSE LET clause == Head(clauses)
       IN (IF clause.op = "default" THEN <<>> ELSE <<VisitTask(clause.kids[1])>>)
          \o <<VisitStatementsTask(Tail(clause.kids), 0)>>
          \o ClauseTasks(Tail(clauses))

VisitSwitchStatement ==
  /\ Visiting("SwitchStatement")
  /\ \E foreign \in Foreign :
       LET r == EmitExpr(Doing.node.kids[1], foreign)
       IN /\ emitted' = emitted \o r.code
          /\ op_log' = Append(op_log, Shape("SwitchStatement", FALSE)) \o r.log
          /\ epc' = IF r.ok THEN epc ELSE "unreachable"
          /\ todo' = IF r.ok THEN Then(ClauseTasks(Tail(Doing.node.kids))) ELSE todo
  /\ UNCHANGED <<literal, in_function_, block_depth_, breakable_blocks_, labels,
                 jump_log, block_log, dvars, ivars, rvars>>

(* Visit() finds the stack exhausted: the node is not visited and every    *)
(* RECURSE on the way out returns at once.                                 *)
StackOverflow ==
  /\ Walking /\ Doing.do = "Visit"
  /\ epc' = "overflow"
  /\ UNCHANGED <<literal, todo, emitted, in_function_, block_depth_,
                 breakable_blocks_, labels, jump_log, block_log, op_log,
                 dvars, ivars, rvars>>

(* ---- the function literals compiled ----                                *)

Literal(v, ty) == Node("Literal", v, "", ty, <<>>)
VariableProxy(i, ty) == Node("VariableProxy", i, "", ty, <<>>)
FunctionProxy(i) == Node("VariableProxy", i, "function", "", <<>>)
Property(obj, key) == Node("Property", 0, "", "int", <<obj, key>>)
Assignment(target, val) == Node("Assignment", 0, "ASSIGN", "int", <<target, val>>)
BinaryOperation(token, left, right, ty) == Node("BinaryOperation", 0, token, ty, <<left, right>>)
CompareOperation(token, left, right) == Node("CompareOperation", 0, token, "int", <<left, right>>)
UnaryOperation(token, x) == Node("UnaryOperation", 0, token, "int", <<x>>)
CountOperation(x) == Node("CountOperation", 0, "INC", "int", <<x>>)
Conditional(c, x, y) == Node("Conditional", 0, "", "int", <<c, x, y>>)
Call(call_type, callee, args) == Node("Call", 0, call_type, "int", <<callee>> \o args)
CallNew(callee) == Node("CallNew", 0, "", "", <<callee>>)
CallRuntime(callee) == Node("CallRuntime", 0, "", "", <<callee>>)

EmptyStatement == Node("EmptyStatement", 0, "", "", <<>>)
ExpressionStatement(x) == Node("ExpressionStatement", 0, "", "", <<x>>)
ReturnStatement(x) == Node("ReturnStatement", 0, "", "", <<x>>)
BreakStatement(target) == Node("BreakStatement", target, "", "", <<>>)
ContinueStatement(target) == Node("ContinueStatement", target, "", "", <<>>)
Block(id, stmts) == Node("Block", id, "", "", stmts)
WhileStatement(id, cond, body) == Node("WhileStatement", id, "", "", <<cond, body>>)
IfStatement(cond, then_statement, else_statement) ==
  Node("IfStatement", 0, "", "", <<cond, then_statement, else_statement>>)
DoWhileStatement(cond, body) == Node("DoWhileStatement", 0, "", "", <<cond, body>>)
ForStatement(init, cond, next, body) == Node("ForStatement", 0, "", "", <<init, cond, next, body>>)
ForInStatement(enumerable, body) == Node("ForInStatement", 0, "", "", <<enumerable, body>>)
ForOfStatement(iterable, body) == Node("ForOfStatement", 0, "", "", <<iterable, body>>)
TryCatchStatement(try_block, catch_block) ==
  Node("TryCatchStatement", 0, "", "", <<try_block, catch_block>>)
TryFinallyStatement(try_block, finally_block) ==
  Node("TryFinallyStatement", 0, "", "", <<try_block, finally_block>>)
WithStatement(x, stmt) == Node("WithStatement", 0, "", "", <<x, stmt>>)
DebuggerStatement == Node("DebuggerStatement", 0, "", "", <<>>)
CaseClause(label, stmts) == Node("CaseClause", 0, "", "", <<label>> \o stmts)
DefaultClause(stmts) == Node("CaseClause", 0, "default", "", <<NoNode>> \o stmts)
SwitchStatement(tag, clauses) == Node("SwitchStatement", 0, "", "", <<tag>> \o clauses)

(* x, 1 and x = 1 over an int local.                                       *)
X == VariableProxy(0, "int")
One == Literal(1, "signed")
Step1 == ExpressionStatement(Assignment(X, One))

(* The statements without statements inside, within breakable statements   *)
(* `targets`, of which `loops` are loops.                                  *)
Simple(targets, loops) ==
  {EmptyStatement, Step1, ReturnStatement(X)}
    \cup {BreakStatement(t) : t \in targets}
    \cup {ContinueStatement(t) : t \in loops}

(* The blocks and while loops nested up to d deep, and the statement lists *)
(* made of one statement, or of one statement and an x = 1 or an empty     *)
(* statement after it.  A breakable statement d levels from the innermost  *)
(* has id d.                                                               *)
RECURSIVE Nested(_, _, _)
RECURSIVE StatementLists(_, _, _)

Nested(d, targets, loops) ==
  IF d = 0 THEN {}
  ELSE {Block(d, ss) : ss \in StatementLists(d - 1, targets \cup {d}, loops)}
       \cup {WhileStatement(d, X, s) :
               s \in Simple(targets \cup {d}, loops \cup {d})
                     \cup Nested(d - 1, targets \cup {d}, loops \cup {d})}

StatementLists(d, targets, loops) ==
  LET first == Simple(targets, loops) \cup Nested(d, targets, loops)
  IN {<<s>> : s \in first}
     \cup {<<s, t>> : s \in first, t \in {Step1, EmptyStatement}}

NestedBodies == StatementLists(MaxNest, {}, {})

(* if statements: with and without else, without a then-statement.         *)
IfBodies ==
  {<<IfStatement(X, t, e), Step1>> :
     t \in {EmptyStatement, Step1, ReturnStatement(X)},
     e \in {EmptyStatement, Step1, ReturnStatement(X)}}

(* One binary or compare operation over two locals of every pair of asm    *)
(* types a TypeIndexOf knows, and of a type it does not.                   *)
AsmTypes == {"signed", "unsigned", "int", "float", "double"}

BinaryTokens ==
  {"ADD", "SUB", "MUL", "DIV", "BIT_OR", "BIT_XOR", "SHL", "SAR", "SHR", "MOD", "BIT_AND"}

CompareTokens == {"EQ", "LT", "LTE", "GT", "GTE", "NE"}

Operands ==
  {<<VariableProxy(0, l), VariableProxy(1, r)>> : l \in AsmTypes, r \in AsmTypes}
    \cup {<<VariableProxy(0, "other"), VariableProxy(1, "int")>>}

OperationBodies ==
  {<<ExpressionStatement(BinaryOperation(token, o[1], o[2], o[1].ty))>> :
     token \in BinaryTokens, o \in Operands}
  \cup
  {<<ExpressionStatement(CompareOperation(token, o[1], o[2]))>> :
     token \in CompareTokens, o \in Operands}

(* The statements and expressions the builder has no bytecode for, each    *)
(* in a body of its own, with an x = 1 after it.                           *)
OtherStatements ==
  {DoWhileStatement(X, Step1),
   ForStatement(Step1, X, Step1, Block(1, <<Step1>>)),
   ForStatement(NoNode, NoNode, NoNode, EmptyStatement),
   ForInStatement(X, Step1),
   ForOfStatement(X, Step1),
   SwitchStatement(X, <<CaseClause(One, <<Step1>>), DefaultClause(<<EmptyStatement>>)>>),
   TryCatchStatement(Block(1, <<Step1>>), Block(1, <<EmptyStatement>>)),
   TryFinallyStatement(Block(1, <<Step1>>), Block(1, <<EmptyStatement>>)),
   WithStatement(X, Step1),
   DebuggerStatement}

OtherExpressions ==
  {Conditional(X, One, X),
   Property(X, One),
   CountOperation(X),
   Assignment(Property(X, One), One),
   Assignment(X, Conditional(X, One, X)),
   BinaryOperation("ADD", X, CountOperation(X), "int"),
   Call("OTHER_CALL", FunctionProxy(1), <<X, One>>),
   Call("PROPERTY_CALL", Property(X, One), <<X>>),
   CallNew(FunctionProxy(1)),
   CallRuntime(FunctionProxy(1)),
   UnaryOperation("NOT", X),
   UnaryOperation("SUB", X),
   UnaryOperation("NOT", VariableProxy(0, "other")),
   Literal(1, "float"), Literal(1, "double"), Literal(1, "other")}

OtherBodies ==
  {<<s, Step1>> : s \in OtherStatements}
    \cup {<<ExpressionStatement(x), Step1>> : x \in OtherExpressions}

FunctionBodies == NestedBodies \cup IfBodies \cup OperationBodies \cup OtherBodies

InitEmit ==
  /\ IdleDecode /\ IdleInst /\ IdleRun
  /\ module = EmptyModule /\ beyond = 0
  /\ literal \in FunctionBodies
  /\ todo = <<>> /\ emitted = <<>>
  /\ in_function_ = FALSE /\ block_depth_ = 0 /\ breakable_blocks_ = <<>>
  /\ epc = "start" /\ labels = <<>>
  /\ jump_log = <<>> /\ block_log = <<>> /\ op_log = <<>>

NextEmit ==
  \/ VisitFunctionDeclaration
  \/ VisitFunctionDeclaration_return
  \/ VisitStatements
  \/ VisitStatements_next
  \/ VisitStatements_return
  \/ VisitBlock
  \/ VisitBlock_return
  \/ VisitExpressionStatement
  \/ VisitEmptyStatement
  \/ VisitIfStatement
  \/ VisitContinueStatement
  \/ VisitBreakStatement
  \/ VisitReturnStatement
  \/ VisitWhileStatement
  \/ VisitWhileStatement_return
  \/ VisitExpression
  \/ VisitWithStatement
  \/ VisitDoWhileStatement
  \/ VisitForStatement
  \/ VisitForInStatement
  \/ VisitForOfStatement
  \/ VisitTryCatchStatement
  \/ VisitTryFinallyStatement
  \/ VisitDebuggerStatement
  \/ VisitSwitchStatement
  \/ StackOverflow

SpecEmit == InitEmit /\ [][NextEmit]_vars

----------------------------------------------------------------------------
(* Properties of the builder's walk.                                       *)

(* The node classes the builder has no bytecode for and whose visitors     *)
(* only visit the children.                                                *)
VisitedThrough ==
  {"ForStatement", "DoWhileStatement", "ForInStatement", "ForOfStatement",
   "SwitchStatement", "TryCatchStatement", "TryFinallyStatement", "WithStatement",
   "Conditional", "Property", "CountOperation"}

Shapes == {i \in DOMAIN op_log : op_log[i].what = "shape"}

(* C23, as claimed: every visit of an AST shape the builder does not       *)
(* support (for, do-while, for-in, for-of, switch, try, with, conditional  *)
(* expressions, property accesses, count operations, non-variable          *)
(* assignment targets, unsupported operators and call kinds) ends the      *)
(* emission with a hard error: the visit is the last thing the walk did.   *)
C23_UnsupportedShapesStop ==
  \A i \in Shapes :
    op_log[i].name # "DebuggerStatement" =>
      /\ op_log[i].stopped
      /\ epc = "unreachable"

(* A function compiled to its end although a do-while statement was in     *)
(* it: the bytes of its body and of the statement after it were written.   *)
C23_DoWhileCompiled ==
  /\ epc = "done"
  /\ literal = <<DoWhileStatement(X, Step1), Step1>>
  /\ \E i \in Shapes : op_log[i].name = "DoWhileStatement" /\ ~op_log[i].stopped
  /\ emitted = <<kExprBlock, Byte(2)>>
                 \o EmitExpr(Assignment(X, One), kExprNop).code
                 \o EmitExpr(X, kExprNop).code
                 \o EmitExpr(Assignment(X, One), kExprNop).code

(* What does stop the process: a non-variable assignment target, a token   *)
(* without a case in the operator switches, a call that is not OTHER_CALL, *)
(* new, a runtime call, an operand without an asm type.                    *)
C23_UnreachableStops ==
  /\ epc = "unreachable" <=> \E i \in Shapes : op_log[i].stopped
  /\ \A i \in Shapes : op_log[i].stopped => i = Len(op_log)
  /\ \A i \in Shapes : ~op_log[i].stopped =>
       op_log[i].name \in VisitedThrough \cup {"DebuggerStatement"}


(* The label a jump's operand designates among the labels open around it,  *)
(* one per Block and Loop written and not yet left, 0 being the innermost. *)
Designated(jump) == jump.labels[Len(jump.labels) - jump.operand]

Designates(jump) ==
  CASE jump.kind = "break" -> Designated(jump).owner = jump.target
    [] jump.kind = "continue" -> Designated(jump) = Label("Loop", jump.target)
    [] jump.kind = "return" -> jump.operand = Len(jump.labels) - 1

(* C25, as claimed: the operand written for a break, continue or return is *)
(* smaller than the number of Block and Loop labels around the Br, and the *)
(* label it designates (each Block and each Loop one label, 0 innermost)   *)
(* is the break's target statement, the continue's target loop, or for a   *)
(* return the outermost block of the function body.                        *)
C25_OperandDesignatesTarget ==
  \A i \in DOMAIN jump_log :
    /\ jump_log[i].operand < Len(jump_log[i].labels)
    /\ Designates(jump_log[i])

(* `while (x) return x;` as the whole body: Br 2 under two labels.         *)
C25_ReturnPastLabels ==
  /\ literal = <<WhileStatement(MaxNest, X, ReturnStatement(X))>>
  /\ jump_log # <<>>
  /\ jump_log[1].kind = "return"
  /\ jump_log[1].operand = 2
  /\ Len(jump_log[1].labels) = 2

(* Where the operands are right under that rule: no loop is open around    *)
(* the jump.                                                               *)
C25_RightAmongBlocks ==
  \A i \in DOMAIN jump_log :
    (\A l \in DOMAIN jump_log[i].labels : jump_log[i].labels[l].kind = "Block") =>
      /\ jump_log[i].operand < Len(jump_log[i].labels)
      /\ Designates(jump_log[i])

(* What the operands do designate: a loop counted as two labels, its exit  *)
(* outside its back-edge.                                                  *)
RECURSIVE TwoPerLoop(_)
TwoPerLoop(ls) ==
  IF ls = <<>> THEN <<>>
  ELSE (IF Head(ls).kind = "Loop"
        THEN <<[kind |-> "exit", owner |-> Head(ls).owner],
               [kind |-> "back-edge", owner |-> Head(ls).owner]>>
        ELSE <<[kind |-> "exit", owner |-> Head(ls).owner]>>)
       \o TwoPerLoop(Tail(ls))

C25_RightWithTwoLabelsPerLoop ==
  \A i \in DOMAIN jump_log :
    LET jump == jump_log[i]
        open == TwoPerLoop(jump.labels)
        at == open[Len(open) - jump.operand]
    IN /\ jump.operand < Len(open)
       /\ CASE jump.kind = "break" -> at = [kind |-> "exit", owner |-> jump.target]
            [] jump.kind = "continue" -> at = [kind |-> "back-edge", owner |-> jump.target]
            [] jump.kind = "return" -> jump.operand = Len(open) - 1


(* The visit of a while statement is through its body: the statement, and  *)
(* what it has written since its Loop opcode.                              *)
WhileDone == Walking /\ Doing.do = "VisitWhileStatement"
WhileCode == SubSeq(emitted, Doing.mark + 1, Len(emitted))
WhileHead ==
  <<kExprLoop, Byte(1), kExprIf>>
    \o EmitExpr(Doing.node.kids[1], kExprNop).code
    \o <<kExprBr, Byte(0)>>
WhileBody == SubSeq(WhileCode, Len(WhileHead) + 1, Len(WhileCode))

(* The statements the loop holds when If(cond, Break(0)) is one statement  *)
(* and the body follows it: the If, and the body's if it wrote one.        *)
LoopStatements == 1 + (IF WhileBody # <<>> THEN 1 ELSE 0)

(* Loop, 1, If, the condition once, Br, 0, then the body once.             *)
WhileShape ==
  /\ Len(WhileCode) >= Len(WhileHead)
  /\ SubSeq(WhileCode, 1, Len(WhileHead)) = WhileHead
  /\ Doing.node.kids[2] = Step1 => WhileBody = EmitExpr(Assignment(X, One), kExprNop).code
  /\ Doing.node.kids[2] = EmptyStatement => WhileBody = <<>>
  /\ Doing.node.kids[2].k \in {"BreakStatement", "ContinueStatement"} =>
       Len(WhileBody) = 3 /\ WhileBody[1] = kExprBr /\ WhileBody[3] = kExprNop

(* C26, as claimed: a while statement is written as Loop, the count 1,     *)
(* If(cond, Break(0)) and then the body, condition and body once each and  *)
(* in that order, and the count written after Loop is the number of        *)
(* statements the loop contains.                                           *)
C26_WhileShapeAndCount ==
  WhileDone => WhileShape /\ WhileCode[2] = Byte(LoopStatements)

(* `while (x) x = 1;`: the count 1 before the If and the assignment.       *)
C26_CountOneOfTwo ==
  /\ WhileDone
  /\ Doing.node = WhileStatement(MaxNest, X, Step1)
  /\ WhileCode = <<kExprLoop, Byte(1), kExprIf, kExprGetLocal, Byte(0), kExprBr, Byte(0)>>
                   \o EmitExpr(Assignment(X, One), kExprNop).code
  /\ LoopStatements = 2

(* The bytes do have the order claimed, with the count 1 whatever the body *)
(* writes.                                                                 *)
C26_ShapeOnly == WhileDone => WhileShape /\ WhileCode[2] = Byte(1)


(* C27, as claimed: the count byte written after Block is the number of    *)
(* statements then written into the block, for every statement list, also  *)
(* one with statements after a return, break or continue and one with      *)
(* empty statements.                                                       *)
C27_BlockCountIsStatementsWritten ==
  \A i \in DOMAIN block_log : block_log[i].count = block_log[i].made

(* `return x; x = 1;`: Block 2 with the return alone in it.                *)
C27_CountTwoOneWritten ==
  /\ epc = "done"
  /\ literal = <<ReturnStatement(X), Step1>>
  /\ emitted = <<kExprBlock, Byte(2), kExprBr, Byte(0), kExprGetLocal, Byte(0)>>
  /\ block_log = <<[count |-> 2, visited |-> 1, made |-> 1, owner |-> 0]>>

(* `x = 1; ;`: Block 2, and the empty statement writes nothing.            *)
C27_EmptyStatementCounted ==
  /\ epc = "done"
  /\ literal = <<Step1, EmptyStatement>>
  /\ block_log = <<[count |-> 2, visited |-> 2, made |-> 1, owner |-> 0]>>

(* The count is the length of the list: it is right when no statement      *)
(* before the last is a jump and every statement writes something.         *)
C27_CountIsListLength ==
  \A i \in DOMAIN block_log :
    /\ block_log[i].made <= block_log[i].visited
    /\ block_log[i].visited <= block_log[i].count


(* The table lookups of the binary and compare operations visited.         *)
Lookups == {i \in DOMAIN op_log : op_log[i].what = "lookup"}

(* The type class of an operand, as TypeIndexOf numbers it.                *)
ClassOf(ty) == TypeIndexOf([ty |-> ty])

(* The opcode is the table's entry for the class.                          *)
OfClass(l, class) ==
  /\ class + 1 \in DOMAIN l.table
  /\ l.opcode = l.table[class + 1]

(* C29, as claimed: for every binary or compare operation visited, the     *)
(* type index that selects the opcode lies within the operator's table     *)
(* (four entries for arithmetic and comparison, two for the bitwise and    *)
(* shift operators) and the opcode selected belongs to the type class of   *)
(* both operands.                                                          *)
C29_IndexInTableAndClass ==
  \A i \in Lookups :
    /\ op_log[i].index >= 0 /\ op_log[i].index < Len(op_log[i].table)
    /\ OfClass(op_log[i], ClassOf(op_log[i].left))
    /\ OfClass(op_log[i], ClassOf(op_log[i].right))

(* `a | b` over two floats: index 2 into the two-entry table of BIT_OR.    *)
C29_IndexPastTable ==
  \E i \in Lookups :
    /\ op_log[i].name = "BIT_OR"
    /\ op_log[i].left = "float" /\ op_log[i].right = "float"
    /\ op_log[i].index = 2
    /\ Len(op_log[i].table) = 2
    /\ op_log[i].opcode \in Foreign

(* `a / b`, a signed and b unsigned: the signed division.                  *)
C29_DivSignedByUnsigned ==
  \E i \in Lookups :
    /\ op_log[i].name = "DIV"
    /\ op_log[i].left = "signed" /\ op_log[i].right = "unsigned"
    /\ op_log[i].opcode = Opcode("kExprI32", "Div", "S")

(* The pairs of operand types the DCHECK of TypeIndexOf lets through.      *)
Checked(l) ==
  \/ ClassOf(l.left) = ClassOf(l.right)
  \/ /\ BinaryCases(l.name).ignore_sign
     /\ ClassOf(l.left) <= 1 /\ ClassOf(l.right) <= 1

(* For those pairs, and integer operands of the bitwise and shift          *)
(* operators, index and opcode are as claimed.                             *)
C29_RightForCheckedIntegerPairs ==
  \A i \in Lookups :
    (Checked(op_log[i]) /\ (Len(op_log[i].table) = 2 => ClassOf(op_log[i].left) <= 1)) =>
      /\ op_log[i].index >= 0 /\ op_log[i].index < Len(op_log[i].table)
      /\ OfClass(op_log[i], ClassOf(op_log[i].left))
      /\ OfClass(op_log[i], ClassOf(op_log[i].right))


(* 1 per block and 2 per while loop over the entries of breakable_blocks_. *)
RECURSIVE DepthOf(_)
DepthOf(blocks) ==
  IF blocks = <<>> THEN 0
  ELSE (IF Head(blocks).second THEN 2 ELSE 1) + DepthOf(Tail(blocks))

(* The visit of a block or while statement is about to complete.           *)
Completing == Walking /\ Doing.do \in {"VisitBlock", "VisitWhileStatement"}

Restores ==
  Completing =>
    /\ block_depth_' = Doing.entry.depth
    /\ breakable_blocks_' = Doing.entry.blocks

(* C30: during the walk of a function body block_depth_ is the sum over    *)
(* breakable_blocks_ of 1 per block and 2 per while loop; the step that    *)
(* completes the visit of a block or while statement puts both back to     *)
(* what they were when the visit began; at the start and at the end of the *)
(* function declaration block_depth_ is 0 and breakable_blocks_ is empty.  *)
C30_DepthIsSumAndRestored ==
  /\ [](block_depth_ = DepthOf(breakable_blocks_))
  /\ [][Restores]_vars
  /\ [](epc \in {"start", "done"} => block_depth_ = 0 /\ breakable_blocks_ = <<>>)

(* A block inside a while loop has been visited and the loop's visit is    *)
(* about to complete: the block's unit has been taken back, the loop's two *)
(* are still counted.                                                      *)
C30_Witness ==
  /\ Completing
  /\ Doing.do = "VisitWhileStatement"
  /\ Doing.node.kids[2].k = "Block"
  /\ Doing.entry = [depth |-> 0, blocks |-> <<>>]
  /\ block_depth_ = 2
  /\ breakable_blocks_ = <<[first |-> MaxNest, second |-> TRUE]>>
  /\ \E i \in DOMAIN block_log : block_log[i].owner = MaxNest - 1

(* Depth 3 inside: the loop's two units and the block's one.               *)
C30_WitnessInside ==
  /\ Walking
  /\ block_depth_ = 3
  /\ breakable_blocks_ = <<[first |-> MaxNest, second |-> TRUE],
                           [first |-> MaxNest - 1, second |-> FALSE]>>

====
